---------------------------- MODULE Spec2Model ----------------------------
(***************************************************************************)
(* Model of cfelpyutils: load_crystfel_geometry (crystfel_utils.py) and    *)
(* compute_pix_maps (geometry_utils.py).                                   *)
(*                                                                         *)
(* Python values are tagged records, so that values of different Python    *)
(* types can be compared: None, a missing dictionary key (Absent), floats  *)
(* and ints (exact rationals n/d), strings, booleans, inf and lists.       *)
(* Text is kept as TLA+ strings and taken apart character by character,    *)
(* as the code does.  Floats are exact rationals: rounding is not modelled.*)
(***************************************************************************)
EXTENDS Integers, Sequences, FiniteSets, TLC

(***************************************************************************)
(* Bounds of the model.                                                    *)
(***************************************************************************)
MaxBody == 2

(***************************************************************************)
(* Python values.                                                          *)
(***************************************************************************)
None == [t |-> "None"]
Absent == [t |-> "absent"]
Inf == [t |-> "inf"]
Str(s) == [t |-> "str", s |-> s]
Bool(b) == [t |-> "bool", b |-> b]
List(v) == [t |-> "list", v |-> v]

Abs(n) == IF n < 0 THEN -n ELSE n

RECURSIVE GCD(_, _)
GCD(a, b) == IF b = 0 THEN a ELSE GCD(b, a % b)

\* the rational n/d in lowest terms with a positive denominator (d # 0)
Num(n, d) ==
    LET g == GCD(Abs(n), Abs(d))
        s == IF d < 0 THEN -1 ELSE 1
    IN  [t |-> "num", n |-> (s * n) \div g, d |-> (s * d) \div g]

PyInt(n) == Num(n, 1)
IsNum(v) == v.t = "num"
LCM(a, b) == (a \div GCD(a, b)) * b
\* sums and comparisons over the least common denominator, products with the
\* common factors cancelled first, so that intermediate values stay small
RAdd(a, b) ==
    LET l == LCM(a.d, b.d)
    IN  Num(a.n * (l \div a.d) + b.n * (l \div b.d), l)
RNeg(a) == [a EXCEPT !.n = -a.n]
RSub(a, b) == RAdd(a, RNeg(b))
RMul(a, b) ==
    LET g1 == GCD(Abs(a.n), b.d)
        g2 == GCD(Abs(b.n), a.d)
    IN  Num((a.n \div g1) * (b.n \div g2), (a.d \div g2) * (b.d \div g1))
RDiv(a, b) == RMul(a, Num(b.d, b.n))
RLt(a, b) ==
    LET l == LCM(a.d, b.d)
    IN  a.n * (l \div a.d) < b.n * (l \div b.d)
RIsZero(a) == a.n = 0

(***************************************************************************)
(* Exceptions and results of operations that can raise.                    *)
(***************************************************************************)
NoErr == [type |-> "", msg |-> ""]
Exc(type, msg) == [type |-> type, msg |-> msg]
Ok(v) == [ok |-> TRUE, v |-> v, exc |-> NoErr]
Raise(type, msg) == [ok |-> FALSE, v |-> None, exc |-> Exc(type, msg)]

(***************************************************************************)
(* Text operations of Python used by the parser.                           *)
(***************************************************************************)
Ch(s, k) == SubSeq(s, k, k)
From(s, k) == SubSeq(s, k, Len(s))
StartsWith(s, p) == Len(s) >= Len(p) /\ SubSeq(s, 1, Len(p)) = p
Digits == {"0", "1", "2", "3", "4", "5", "6", "7", "8", "9"}
White == {" ", "\t", "\n"}

DigitVal(c) ==
    CASE c = "0" -> 0 [] c = "1" -> 1 [] c = "2" -> 2 [] c = "3" -> 3
      [] c = "4" -> 4 [] c = "5" -> 5 [] c = "6" -> 6 [] c = "7" -> 7
      [] c = "8" -> 8 [] c = "9" -> 9

AllDigits(s) == \A k \in 1..Len(s) : Ch(s, k) \in Digits

RECURSIVE DigitsVal(_)
DigitsVal(s) ==
    IF s = "" THEN 0
    ELSE 10 * DigitsVal(SubSeq(s, 1, Len(s) - 1)) + DigitVal(Ch(s, Len(s)))

RECURSIVE Pow10(_)
Pow10(k) == IF k = 0 THEN 1 ELSE 10 * Pow10(k - 1)

\* str.strip()
RECURSIVE LStrip(_)
LStrip(s) == IF s # "" /\ Ch(s, 1) \in White THEN LStrip(From(s, 2)) ELSE s
RECURSIVE RStrip(_)
RStrip(s) ==
    IF s # "" /\ Ch(s, Len(s)) \in White
    THEN RStrip(SubSeq(s, 1, Len(s) - 1)) ELSE s
Strip(s) == RStrip(LStrip(s))

\* str.isdigit()
IsDigit(s) == s # "" /\ AllDigits(s)

\* str.count(c) for a one-character c
RECURSIVE Count(_, _)
Count(s, c) ==
    IF s = "" THEN 0
    ELSE (IF Ch(s, 1) = c THEN 1 ELSE 0) + Count(From(s, 2), c)

\* the pieces of s between the characters of seps; keep says whether the
\* separators themselves are kept as pieces (a capturing group of re.split)
RECURSIVE SplitOn(_, _, _, _, _)
SplitOn(s, seps, keep, cur, acc) ==
    IF s = "" THEN Append(acc, cur)
    ELSE IF Ch(s, 1) \in seps
         THEN SplitOn(From(s, 2), seps, keep, "",
                      IF keep THEN Append(Append(acc, cur), Ch(s, 1))
                      ELSE Append(acc, cur))
         ELSE SplitOn(From(s, 2), seps, keep, cur \o Ch(s, 1), acc)

\* str.split(sep) for a one-character sep
Split(s, sep) == SplitOn(s, {sep}, FALSE, "", <<>>)
\* re.split("([...])", s) with the separators captured
ReSplit(s, seps) == SplitOn(s, seps, TRUE, "", <<>>)

Filter(seq, drop) == SelectSeq(seq, LAMBDA x : x \notin drop)

RECURSIVE Join(_)
Join(seq) == IF seq = <<>> THEN "" ELSE Head(seq) \o Join(Tail(seq))

\* int(s): an optional sign and at least one digit, surrounding blanks allowed
ParseInt(s0) ==
    LET s == Strip(s0)
        signed == s # "" /\ Ch(s, 1) \in {"+", "-"}
        body == IF signed THEN From(s, 2) ELSE s
    IN  IF IsDigit(body)
        THEN Ok(PyInt(IF signed /\ Ch(s, 1) = "-" THEN -DigitsVal(body)
                    ELSE DigitsVal(body)))
        ELSE Raise("ValueError", "invalid literal for int(): " \o s0)

\* float(s): an optional sign, digits with at most one decimal point
\* (exponents, inf and nan are not in the model's inputs)
ParseFloat(s0) ==
    LET s == Strip(s0)
        signed == s # "" /\ Ch(s, 1) \in {"+", "-"}
        body == IF signed THEN From(s, 2) ELSE s
        parts == Split(body, ".")
        ip == parts[1]
        fp == IF Len(parts) = 2 THEN parts[2] ELSE ""
        good == /\ Len(parts) <= 2
                /\ AllDigits(ip) /\ AllDigits(fp)
                /\ Len(ip) + Len(fp) >= 1
        mag == Num(DigitsVal(ip) * Pow10(Len(fp)) + DigitsVal(fp), Pow10(Len(fp)))
    IN  IF good
        THEN Ok(IF signed /\ Ch(s, 1) = "-" THEN RNeg(mag) ELSE mag)
        ELSE Raise("ValueError", "could not convert string to float: " \o s0)

(***************************************************************************)
(* _assplode_algebraic and _dir_conv.                                      *)
(***************************************************************************)
\* the signed terms of a direction expression; pairing the items two by two
\* raises IndexError when a sign has no term after it
_assplode_algebraic(value) ==
    LET split == Filter(ReSplit(Strip(value), {"+", "-"}), {""})
        items == IF split # <<>> /\ split[1] \notin {"+", "-"}
                 THEN <<"+">> \o split ELSE split
    IN  IF Len(items) % 2 = 1
        THEN Raise("IndexError", "list index out of range")
        ELSE Ok([k \in 1..(Len(items) \div 2) |->
                    items[2 * k - 1] \o items[2 * k]])

\* one term of _dir_conv that takes a bare "-" for 1.0
DirTermUnsigned(dir, item) ==
    LET axis == Ch(item, Len(item))
        head == SubSeq(item, 1, Len(item) - 1)
        mag == IF head \in {"+", "-"} THEN Ok(PyInt(1)) ELSE ParseFloat(head)
    IN  IF axis \notin {"x", "y", "z"}
        THEN Raise("RuntimeError",
                   "Invalid Symbol: " \o axis \o " (must be x, y or z).")
        ELSE IF ~mag.ok THEN mag
        ELSE Ok(CASE axis = "x" -> <<mag.v, dir[2], dir[3]>>
                  [] axis = "y" -> <<dir[1], mag.v, dir[3]>>
                  [] axis = "z" -> <<dir[1], dir[2], mag.v>>)

\* one term of _dir_conv applied to the direction triple dir
DirTerm(dir, item) ==
    LET axis == Ch(item, Len(item))
        head == SubSeq(item, 1, Len(item) - 1)
        mag == IF head = "+" THEN Ok(PyInt(1))
               ELSE IF head = "-" THEN Ok(PyInt(-1))
               ELSE ParseFloat(head)
    IN  IF axis \notin {"x", "y", "z"}
        THEN Raise("RuntimeError",
                   "Invalid Symbol: " \o axis \o " (must be x, y or z).")
        ELSE IF ~mag.ok THEN mag
        ELSE Ok(CASE axis = "x" -> <<mag.v, dir[2], dir[3]>>
                  [] axis = "y" -> <<dir[1], mag.v, dir[3]>>
                  [] axis = "z" -> <<dir[1], dir[2], mag.v>>)

RECURSIVE DirTerms(_, _)
DirTerms(dir, items) ==
    IF items = <<>> THEN Ok(dir)
    ELSE LET r == DirTerm(dir, Head(items))
         IN  IF r.ok THEN DirTerms(r.v, Tail(items)) ELSE r

\* _dir_conv starting every expression from the zero vector
DirConvFromZero(direction_x, direction_y, direction_z, value) ==
    LET items == _assplode_algebraic(value)
    IN  IF ~items.ok THEN items
        ELSE IF items.v = <<>>
        THEN Raise("RuntimeError", "Invalid direction: " \o value \o ".")
        ELSE DirTerms(<<PyInt(0), PyInt(0), PyInt(0)>>, items.v)

_dir_conv(direction_x, direction_y, direction_z, value) ==
    LET items == _assplode_algebraic(value)
    IN  IF ~items.ok THEN items
        ELSE IF items.v = <<>>
        THEN Raise("RuntimeError", "Invalid direction: " \o value \o ".")
        ELSE DirTerms(<<direction_x, direction_y, direction_z>>, items.v)


(***************************************************************************)
(* Insertion-ordered dictionaries: a sequence of (key, value) pairs.       *)
(***************************************************************************)
Keys(d) == [k \in 1..Len(d) |-> d[k].k]
Has(d, key) == \E k \in 1..Len(d) : d[k].k = key
Get(d, key) == d[CHOOSE k \in 1..Len(d) : d[k].k = key].v
\* a dictionary that puts a new key before the keys it has
PutFirst(d, key, val) ==
    IF Has(d, key)
    THEN [k \in 1..Len(d) |-> IF d[k].k = key THEN [k |-> key, v |-> val] ELSE d[k]]
    ELSE <<[k |-> key, v |-> val]>> \o d

Put(d, key, val) ==
    IF Has(d, key)
    THEN [k \in 1..Len(d) |-> IF d[k].k = key THEN [k |-> key, v |-> val] ELSE d[k]]
    ELSE Append(d, [k |-> key, v |-> val])

(***************************************************************************)
(* The records load_crystfel_geometry starts from.  A key the dictionary   *)
(* does not have yet is Absent; reading it raises KeyError.                *)
(***************************************************************************)
default_panel_init ==
    [cnx |-> None, cny |-> None, clen |-> None, coffset |-> PyInt(0),
     res |-> PyInt(-1), badrow |-> Str("-"), no_index |-> Bool(FALSE),
     fsx |-> PyInt(1), fsy |-> PyInt(0), fsz |-> PyInt(0),
     ssx |-> PyInt(0), ssy |-> PyInt(1), ssz |-> PyInt(0),
     rail_x |-> None, rail_y |-> None, rail_z |-> None,
     clen_for_centering |-> None, adu_per_eV |-> None,
     adu_per_photon |-> None, max_adu |-> Inf, mask |-> None,
     mask_file |-> None, satmap |-> None, satmap_file |-> None,
     data |-> None, dim_structure |-> None,
     \* keys that only an assignment or the validation adds
     origin_min_fs |-> Absent, min_fs |-> Absent,
     origin_max_fs |-> Absent, max_fs |-> Absent,
     origin_min_ss |-> Absent, min_ss |-> Absent,
     origin_max_ss |-> Absent, max_ss |-> Absent,
     clen_from |-> Absent, rigid_group |-> Absent,
     saturation_map |-> Absent, saturation_map_file |-> Absent,
     w |-> Absent, h |-> Absent,
     xfs |-> Absent, yfs |-> Absent, xss |-> Absent, yss |-> Absent]

default_bad_region ==
    [min_x |-> None, max_x |-> None, min_y |-> None, max_y |-> None,
     min_fs |-> PyInt(0), max_fs |-> PyInt(0),
     min_ss |-> PyInt(0), max_ss |-> PyInt(0),
     is_fsss |-> PyInt(99), panel |-> Absent]

default_dim == List(<<Str("ss"), Str("fs")>>)

detector_init ==
    [panels |-> <<>>, bad |-> <<>>, mask_good |-> PyInt(0),
     mask_bad |-> PyInt(0), rigid_groups |-> <<>>,
     rigid_group_collections |-> <<>>,
     peak_info_location |-> Absent,
     furthest_out_panel |-> Absent, furthest_out_fs |-> Absent,
     furthest_out_ss |-> Absent, furthest_in_panel |-> Absent,
     furthest_in_fs |-> Absent, furthest_in_ss |-> Absent]

beam_init ==
    [photon_energy |-> PyInt(0), photon_energy_from |-> None,
     photon_energy_scale |-> PyInt(1)]

(***************************************************************************)
(* _set_dim_structure_entry                                                *)
(***************************************************************************)
_set_dim_structure_entry(key, value, panel) ==
    LET dim == IF panel.dim_structure # None THEN panel.dim_structure.v ELSE <<>>
        idx == ParseInt(Ch(key, 4))
        dim_index == idx.v.n
        grown == IF dim_index > Len(dim) - 1
                 THEN dim \o [k \in 1..(dim_index + 1 - Len(dim)) |-> None]
                 ELSE dim
        set(e) == Ok([panel EXCEPT !.dim_structure =
                         List([grown EXCEPT ![dim_index + 1] = e])])
    IN  IF Len(key) < 4
        THEN Raise("RuntimeError",
                   "'dim' must be followed by a number, e.g. 'dim0')")
        ELSE IF ~idx.ok
        THEN Raise("RuntimeError", "Invalid dimension number " \o Ch(key, 4))
        ELSE IF value \in {"ss", "fs", "%"} THEN set(Str(value))
        ELSE IF IsDigit(value) THEN set(PyInt(DigitsVal(value)))
        ELSE Raise("RuntimeError", "Invalid dim entry: " \o value \o ".")

(***************************************************************************)
(* _parse_field_for_panel                                                  *)
(***************************************************************************)
\* the record with the fields set to the value the conversion r returned, or
\* the exception r raised
Stored(r, rec, fields) ==
    IF r.ok
    THEN Ok([f \in DOMAIN rec |-> IF f \in fields THEN r.v ELSE rec[f]])
    ELSE r

\* the record with the three fields set to the direction r returned
StoredDir(r, rec, fx, fy, fz) ==
    IF r.ok
    THEN Ok([f \in DOMAIN rec |->
               CASE f = fx -> r.v[1] [] f = fy -> r.v[2] [] f = fz -> r.v[3]
                 [] OTHER -> rec[f]])
    ELSE r

\* a RuntimeError of _dir_conv is re-raised under the field's message; any
\* other exception passes through
Rewrap(r, msg) ==
    IF ~r.ok /\ r.exc.type = "RuntimeError"
    THEN Raise("RuntimeError", msg \o " " \o r.exc.msg)
    ELSE r

\* the last branch builds the RuntimeError and drops it: nothing is raised
UnrecognizedPanelField(key, panel) == Ok(panel)

_parse_field_for_panel(key, value, panel) ==
    CASE key = "min_fs" ->
           Stored(ParseInt(value), panel, {"origin_min_fs", "min_fs"})
      [] key = "max_fs" ->
           Stored(ParseInt(value), panel, {"origin_max_fs", "max_fs"})
      [] key = "min_ss" ->
           Stored(ParseInt(value), panel, {"origin_min_ss", "min_ss"})
      [] key = "max_ss" ->
           Stored(ParseInt(value), panel, {"origin_max_ss", "max_ss"})
      [] key = "corner_x" -> Stored(ParseFloat(value), panel, {"cnx"})
      [] key = "corner_y" -> Stored(ParseFloat(value), panel, {"cny"})
      [] key = "rail_direction" ->
           StoredDir(Rewrap(_dir_conv(panel.rail_x, panel.rail_y, panel.rail_z,
                                      value),
                            "Invalid rail direction."),
                     panel, "rail_x", "rail_y", "rail_z")
      [] key = "clen_for_centering" ->
           Stored(ParseFloat(value), panel, {"clen_for_centering"})
      [] key = "adu_per_eV" -> Stored(ParseFloat(value), panel, {"adu_per_eV"})
      [] key = "adu_per_photon" ->
           Stored(ParseFloat(value), panel, {"adu_per_photon"})
      [] key = "rigid_group" -> Ok([panel EXCEPT !.rigid_group = Str(value)])
      [] key = "clen" ->
           IF ParseFloat(value).ok
           THEN Ok([panel EXCEPT !.clen = ParseFloat(value).v,
                                 !.clen_from = None])
           ELSE Ok([panel EXCEPT !.clen = PyInt(-1), !.clen_from = Str(value)])
      [] key = "data" ->
           IF ~StartsWith(value, "/")
           THEN Raise("RuntimeError", "Invalid data location: " \o value)
           ELSE Ok([panel EXCEPT !.data = Str(value)])
      [] key = "mask" ->
           IF ~StartsWith(value, "/")
           THEN Raise("RuntimeError", "Invalid data location: " \o value)
           ELSE Ok([panel EXCEPT !.mask = Str(value)])
      [] key = "mask_file" -> Ok([panel EXCEPT !.mask_file = Str(value)])
      [] key = "saturation_map" ->
           Ok([panel EXCEPT !.saturation_map = Str(value)])
      [] key = "saturation_map_file" ->
           Ok([panel EXCEPT !.saturation_map_file = Str(value)])
      [] key = "coffset" -> Stored(ParseFloat(value), panel, {"coffset"})
      [] key = "res" -> Stored(ParseFloat(value), panel, {"res"})
      [] key = "max_adu" -> Ok([panel EXCEPT !.max_adu = Str(value)])
      [] key = "badrow_direction" ->
           Ok([panel EXCEPT !.badrow =
                 Str(CASE value \in {"x", "f"} -> "f"
                       [] value \in {"y", "s"} -> "s"
                       [] OTHER -> "-")])
      [] key = "no_index" -> Ok([panel EXCEPT !.no_index = Bool(value # "")])
      [] key = "fs" ->
           StoredDir(Rewrap(_dir_conv(panel.fsx, panel.fsy, panel.fsz, value),
                            "Invalid fast scan direction."),
                     panel, "fsx", "fsy", "fsz")
      [] key = "ss" ->
           StoredDir(Rewrap(_dir_conv(panel.ssx, panel.ssy, panel.ssz, value),
                            "Invalid slow scan direction."),
                     panel, "ssx", "ssy", "ssz")
      [] StartsWith(key, "dim") ->
           _set_dim_structure_entry(key, value, panel)
      [] OTHER -> UnrecognizedPanelField(key, panel)

(***************************************************************************)
(* _parse_toplevel                                                         *)
(***************************************************************************)
HexDigits == Digits \cup {"a", "b", "c", "d", "e", "f"}
HexVal(c) ==
    CASE c = "a" -> 10 [] c = "b" -> 11 [] c = "c" -> 12 [] c = "d" -> 13
      [] c = "e" -> 14 [] c = "f" -> 15 [] OTHER -> DigitVal(c)

RECURSIVE HexDigitsVal(_)
HexDigitsVal(s) ==
    IF s = "" THEN 0
    ELSE 16 * HexDigitsVal(SubSeq(s, 1, Len(s) - 1)) + HexVal(Ch(s, Len(s)))

\* int(s, base=16) for lower-case digits with an optional 0x prefix
ParseHex(s0) ==
    LET s == Strip(s0)
        body == IF StartsWith(s, "0x") THEN From(s, 3) ELSE s
    IN  IF body # "" /\ \A k \in 1..Len(body) : Ch(body, k) \in HexDigits
        THEN Ok(PyInt(HexDigitsVal(body)))
        ELSE Raise("ValueError", "invalid literal for int() with base 16: " \o s0)

\* int(value), and int(value, base=16) when that raises ValueError
ParseMask(value) ==
    IF ParseInt(value).ok THEN ParseInt(value) ELSE ParseHex(value)

\* the three records a top-level line can change
Top(detector, beam, panel) ==
    [detector |-> detector, beam |-> beam, panel |-> panel]

\* the result r put back as if every panel created so far were the default
\* panel record itself
InTopShared(r, which, detector, beam, panel) ==
    IF ~r.ok THEN r
    ELSE Ok(CASE which = "detector" -> Top(r.v, beam, panel)
              [] which = "beam" -> Top(detector, r.v, panel)
              [] which = "panel" ->
                   Top([detector EXCEPT !.panels =
                           [k \in DOMAIN @ |-> [@[k] EXCEPT !.v = r.v]]],
                       beam, r.v))

\* the result r of a setter of one of the three records, put back among them
InTop(r, which, detector, beam, panel) ==
    IF ~r.ok THEN r
    ELSE Ok(CASE which = "detector" -> Top(r.v, beam, panel)
              [] which = "beam" -> Top(detector, r.v, panel)
              [] which = "panel" -> Top(detector, beam, r.v))

_parse_toplevel(key, value, detector, beam, panel) ==
    CASE key = "mask_bad" ->
           InTop(Stored(ParseMask(value), detector, {"mask_bad"}),
                 "detector", detector, beam, panel)
      [] key = "mask_good" ->
           InTop(Stored(ParseMask(value), detector, {"mask_good"}),
                 "detector", detector, beam, panel)
      [] key = "coffset" ->
           InTop(Stored(ParseFloat(value), panel, {"coffset"}),
                 "panel", detector, beam, panel)
      [] key = "photon_energy" ->
           IF StartsWith(value, "/")
           THEN Ok(Top(detector,
                       [beam EXCEPT !.photon_energy = PyInt(0),
                                    !.photon_energy_from = Str(value)],
                       panel))
           ELSE InTop(Stored(ParseFloat(value),
                             [beam EXCEPT !.photon_energy_from = None],
                             {"photon_energy"}),
                      "beam", detector, beam, panel)
      [] key = "photon_energy_scale" ->
           InTop(Stored(ParseFloat(value), beam, {"photon_energy_scale"}),
                 "beam", detector, beam, panel)
      [] key = "peak_info_location" ->
           Ok(Top([detector EXCEPT !.peak_info_location = Str(value)],
                  beam, panel))
      [] StartsWith(key, "rigid_group")
           /\ ~StartsWith(key, "rigid_group_collection") ->
           Ok(Top([detector EXCEPT !.rigid_groups =
                      Put(@, From(key, 13), Split(value, ","))],
                  beam, panel))
      [] StartsWith(key, "rigid_group_collection") ->
           Ok(Top([detector EXCEPT !.rigid_group_collections =
                      Put(@, From(key, 24), Split(value, ","))],
                  beam, panel))
      [] OTHER ->
           InTop(_parse_field_for_panel(key, value, panel),
                 "panel", detector, beam, panel)

(***************************************************************************)
(* _check_bad_fsss and _parse_field_bad                                    *)
(***************************************************************************)
\* _check_bad_fsss without the comparison: the kind of the last field wins
CheckBadFsssLastWins(bad_region, is_fsss) ==
    Ok([bad_region EXCEPT !.is_fsss = Bool(is_fsss)])

_check_bad_fsss(bad_region, is_fsss) ==
    IF bad_region.is_fsss = PyInt(99)
    THEN Ok([bad_region EXCEPT !.is_fsss = Bool(is_fsss)])
    ELSE IF Bool(is_fsss) # bad_region.is_fsss
    THEN Raise("RuntimeError", "You can't mix x/y and fs/ss in a bad region")
    ELSE Ok(bad_region)

\* the value of the conversion r stored in the field, then the check of the
\* kind of the region
StoredBad(r, bad, field, is_fsss) ==
    IF r.ok THEN _check_bad_fsss([bad EXCEPT ![field] = r.v], is_fsss) ELSE r

_parse_field_bad(key, value, bad) ==
    CASE key \in {"min_x", "max_x", "min_y", "max_y"} ->
           StoredBad(ParseFloat(value), bad, key, FALSE)
      [] key \in {"min_fs", "max_fs", "min_ss", "max_ss"} ->
           StoredBad(ParseInt(value), bad, key, TRUE)
      [] key = "panel" -> Ok([bad EXCEPT !.panel = Str(value)])
      [] OTHER -> Raise("RuntimeError", "Unrecognized field: " \o key)

(***************************************************************************)
(* The body of the loop over the lines of the file (one line).             *)
(***************************************************************************)
\* line.strip().split(";")[0] cut into its tokens at blanks and tabs
LineItems(line) ==
    Filter(ReSplit(Split(Strip(line), ";")[1], {" ", "\t"}), {"", " ", "\t"})

\* re.split("(/)", key) without the empty pieces and the slashes
KeyPath(key) == Filter(ReSplit(key, {"/"}), {"", "/"})

\* a line that is skipped: a comment, fewer than three tokens, or a second
\* token other than "="
Skipped(line) ==
    \/ StartsWith(line, ";")
    \/ Len(LineItems(line)) < 3
    \/ LineItems(line)[2] # "="

\* the detector with the record the setter returned under its name in the
\* mapping (panels or bad)
Entered(r, detector, mapping, name) ==
    IF r.ok
    THEN Ok([detector EXCEPT ![mapping] = Put(@, name, r.v)])
    ELSE r

\* the detector, beam and default panel after one line, or the exception
ParseLine(line, detector, beam, default_panel) ==
    LET line_items == LineItems(line)
        value == Join(SubSeq(line_items, 3, Len(line_items)))
        path == KeyPath(line_items[1])
        old_bad == IF Has(detector.bad, path[1])
                   THEN Get(detector.bad, path[1]) ELSE default_bad_region
        old_panel == IF Has(detector.panels, path[1])
                     THEN Get(detector.panels, path[1]) ELSE default_panel
    IN  IF Skipped(line) THEN Ok(Top(detector, beam, default_panel))
        ELSE IF Len(path) < 2
        THEN _parse_toplevel(line_items[1], value, detector, beam, default_panel)
        ELSE IF StartsWith(path[1], "bad")
        THEN InTop(Entered(_parse_field_bad(path[2], value, old_bad),
                           detector, "bad", path[1]),
                   "detector", detector, beam, default_panel)
        ELSE InTop(Entered(_parse_field_for_panel(path[2], value, old_panel),
                           detector, "panels", path[1]),
                   "detector", detector, beam, default_panel)

(***************************************************************************)
(* The validation passes of load_crystfel_geometry, in the code's order.   *)
(* Each returns the detector it leaves, or the exception it raises.        *)
(***************************************************************************)
\* list.count("%") of a dim_structure, 0 when the panel has none
DimPlaceholders(panel) ==
    IF panel.dim_structure # None
    THEN Len(SelectSeq(panel.dim_structure.v, LAMBDA e : e = Str("%")))
    ELSE 0

\* str.count("%") of a mask, 0 when the panel has none
MaskPlaceholders(panel) ==
    IF panel.mask # None THEN Count(panel.mask.s, "%") ELSE 0

PlaceholderMsg ==
    "All panels' data and mask entries must have the same number of placeholders."

\* the checks of the placeholder counts without the comparison of the masks'
\* count with the count of the data
CheckPlaceholdersPerKind(detector) ==
    LET ps == detector.panels
    IN  IF ps = <<>>
        THEN Raise("RuntimeError", "No panel descriptions in geometry file.")
        ELSE IF \E k \in 2..Len(ps) :
                   DimPlaceholders(ps[k].v) # DimPlaceholders(ps[1].v)
        THEN Raise("RuntimeError", PlaceholderMsg)
        ELSE IF \E k \in 2..Len(ps) :
                   MaskPlaceholders(ps[k].v) # MaskPlaceholders(ps[1].v)
        THEN Raise("RuntimeError", PlaceholderMsg)
        ELSE Ok(detector)

CheckPlaceholders(detector) ==
    LET ps == detector.panels
    IN  IF ps = <<>>
        THEN Raise("RuntimeError", "No panel descriptions in geometry file.")
        ELSE IF \E k \in 2..Len(ps) :
                   DimPlaceholders(ps[k].v) # DimPlaceholders(ps[1].v)
        THEN Raise("RuntimeError", PlaceholderMsg)
        ELSE IF \E k \in 2..Len(ps) :
                   MaskPlaceholders(ps[k].v) # MaskPlaceholders(ps[1].v)
        THEN Raise("RuntimeError", PlaceholderMsg)
        ELSE IF MaskPlaceholders(ps[1].v) > DimPlaceholders(ps[1].v)
        THEN Raise("RuntimeError",
                   "Number of placeholders in mask cannot be larger the number than for data.")
        ELSE Ok(detector)

CountOf(dim, e) == Len(SelectSeq(dim, LAMBDA x : x = e))

\* str(n) of a natural number
RECURSIVE ToStr(_)
ToStr(n) ==
    IF n < 10 THEN SubSeq("0123456789", n + 1, n + 1)
    ELSE ToStr(n \div 10) \o ToStr(n % 10)

\* the checks of one panel's dim_structure without the comparison of its
\* length with the first panel's
CheckDimOfAlone(name, dim, dim_length) ==
    IF \E k \in 1..Len(dim) : dim[k] = None
    THEN Raise("RuntimeError", "Dimension for panel " \o name \o " is undefined.")
    ELSE IF CountOf(dim, Str("ss")) # 1 \/ CountOf(dim, Str("fs")) # 1
    THEN Raise("RuntimeError", "Exactly one dim coordinate is needed.")
    ELSE IF CountOf(dim, Str("%")) > 1
    THEN Raise("RuntimeError", "Only one placeholder dim coordinate is allowed.")
    ELSE Ok(PyInt(Len(dim)))

\* the checks of one panel's dim_structure; dim_length is the length of the
\* first panel's, None before the first panel
CheckDimOf(name, dim, dim_length) ==
    IF \E k \in 1..Len(dim) : dim[k] = None
    THEN Raise("RuntimeError",
               "Dimension "
               \o ToStr((CHOOSE k \in 1..Len(dim) :
                           dim[k] = None /\ \A j \in 1..(k - 1) : dim[j] # None) - 1)
               \o " for panel " \o name \o " is undefined.")
    ELSE IF CountOf(dim, Str("ss")) # 1
    THEN Raise("RuntimeError",
               "Exactly one slow scan dim coordinate is needed (found "
               \o ToStr(CountOf(dim, Str("ss"))) \o " for panel " \o name \o ").")
    ELSE IF CountOf(dim, Str("fs")) # 1
    THEN Raise("RuntimeError",
               "Exactly one fast scan dim coordinate is needed (found "
               \o ToStr(CountOf(dim, Str("fs"))) \o " for panel " \o name \o ").")
    ELSE IF CountOf(dim, Str("%")) > 1
    THEN Raise("RuntimeError",
               "Only one placeholder dim coordinate is allowed. Maximum one placeholder dim coordinate is allowed (found "
               \o ToStr(CountOf(dim, Str("%"))) \o " for panel " \o name \o ")")
    ELSE IF dim_length # None /\ dim_length # PyInt(Len(dim))
    THEN Raise("RuntimeError",
               "Number of dim coordinates must be the same for all panels.")
    ELSE IF (IF dim_length = None THEN Len(dim) ELSE dim_length.n) = 1
    THEN Raise("RuntimeError", "Number of dim coordinates must be at least two.")
    ELSE Ok(IF dim_length = None THEN PyInt(Len(dim)) ELSE dim_length)

RECURSIVE CheckDimsFrom(_, _, _)
CheckDimsFrom(detector, k, dim_length) ==
    IF k > Len(detector.panels) THEN Ok(detector)
    ELSE LET name == detector.panels[k].k
             panel == detector.panels[k].v
             dim == IF panel.dim_structure = None
                    THEN default_dim ELSE panel.dim_structure
             r == CheckDimOf(name, dim.v, dim_length)
         IN  IF ~r.ok THEN r
             ELSE CheckDimsFrom(
                    [detector EXCEPT !.panels[k].v.dim_structure = dim],
                    k + 1, r.v)

CheckDims(detector) == CheckDimsFrom(detector, 1, None)

\* panel[key], a KeyError when the dictionary has no such key
Lookup(panel, key) ==
    IF panel[key] = Absent THEN Raise("KeyError", key) ELSE Ok(panel[key])

PleaseSpecify(what, name) ==
    Raise("RuntimeError", "Please specify " \o what \o " panel " \o name \o ".")

\* the rail and clen_for_centering defaults and the size of a complete panel
Finalize(panel) ==
    LET railed == IF panel.rail_x = None
                  THEN [panel EXCEPT !.rail_x = PyInt(0), !.rail_y = PyInt(0),
                                     !.rail_z = PyInt(1)]
                  ELSE panel
        centred == IF railed.clen_for_centering = None
                   THEN [railed EXCEPT !.clen_for_centering = PyInt(0)]
                   ELSE railed
    IN  [centred EXCEPT
           !.w = RAdd(RSub(panel.origin_max_fs, panel.origin_min_fs), PyInt(1)),
           !.h = RAdd(RSub(panel.origin_max_ss, panel.origin_min_ss), PyInt(1))]

\* the completeness checks of one panel, in the code's order
CheckPanel(name, panel) ==
    IF ~Lookup(panel, "origin_min_fs").ok THEN Lookup(panel, "origin_min_fs")
    ELSE IF panel.origin_min_fs.n < 0
    THEN PleaseSpecify("the minimum fs coordinate for", name)
    ELSE IF ~Lookup(panel, "origin_max_fs").ok THEN Lookup(panel, "origin_max_fs")
    ELSE IF panel.origin_max_fs.n < 0
    THEN PleaseSpecify("the maximum fs coordinate for", name)
    ELSE IF ~Lookup(panel, "origin_min_ss").ok THEN Lookup(panel, "origin_min_ss")
    ELSE IF panel.origin_min_ss.n < 0
    THEN PleaseSpecify("the minimum ss coordinate for", name)
    ELSE IF ~Lookup(panel, "origin_max_ss").ok THEN Lookup(panel, "origin_max_ss")
    ELSE IF panel.origin_max_ss.n < 0
    THEN PleaseSpecify("the maximum ss coordinate for", name)
    ELSE IF panel.cnx = None
    THEN PleaseSpecify("the corner X coordinate for", name)
    ELSE IF panel.clen = None /\ ~Lookup(panel, "clen_from").ok
    THEN Lookup(panel, "clen_from")
    ELSE IF panel.clen = None /\ panel.clen_from = None
    THEN PleaseSpecify("the camera length for", name)
    ELSE IF panel.res.n < 0
    THEN PleaseSpecify("the resolution or", name)
    ELSE IF panel.adu_per_eV = None /\ panel.adu_per_photon = None
    THEN PleaseSpecify("either adu_per_eV or adu_per_photon for", name)
    ELSE IF panel.clen_for_centering = None /\ panel.rail_x # None
    THEN Raise("RuntimeError",
               "You must specify clen_for_centering if you specify the rail direction (panel "
               \o name \o ")")
    ELSE Ok(Finalize(panel))

RECURSIVE CheckPanelsFrom(_, _)
CheckPanelsFrom(detector, k) ==
    IF k > Len(detector.panels) THEN Ok(detector)
    ELSE LET r == CheckPanel(detector.panels[k].k, detector.panels[k].v)
         IN  IF ~r.ok THEN r
             ELSE CheckPanelsFrom([detector EXCEPT !.panels[k].v = r.v], k + 1)

CheckPanels(detector) == CheckPanelsFrom(detector, 1)

CheckBadRegions(detector) ==
    LET bad == detector.bad
        unresolved == {k \in 1..Len(bad) : bad[k].v.is_fsss = PyInt(99)}
        first == CHOOSE k \in unresolved : \A j \in unresolved : k <= j
    IN  IF unresolved # {}
        THEN Raise("RuntimeError",
                   "Please specify the coordinate ranges for bad region "
                   \o bad[first].k \o ".")
        ELSE Ok(detector)

\* the names of the lists of groups that are not keys of known, in order
Dangling(groups, known) ==
    LET all == [k \in 1..Len(groups) |->
                  SelectSeq(groups[k].v, LAMBDA n : ~Has(known, n))]
        hit == {k \in 1..Len(groups) : all[k] # <<>>}
    IN  IF hit = {} THEN <<>>
        ELSE all[CHOOSE k \in hit : \A j \in hit : k <= j]

\* the check of the rigid groups without the loop over the collections
CheckRigidGroupsOnly(detector) ==
    LET lost_panels == Dangling(detector.rigid_groups, detector.panels)
    IN  IF lost_panels # <<>>
        THEN Raise("RuntimeError",
                   "Cannot add panel to rigid_group. Panel not found: "
                   \o lost_panels[1])
        ELSE Ok(detector)

CheckRigidGroups(detector) ==
    LET lost_panels == Dangling(detector.rigid_groups, detector.panels)
        lost_groups == Dangling(detector.rigid_group_collections,
                                detector.rigid_groups)
    IN  IF lost_panels # <<>>
        THEN Raise("RuntimeError",
                   "Cannot add panel to rigid_group. Panel not found: "
                   \o lost_panels[1])
        ELSE IF lost_groups # <<>>
        THEN Raise("RuntimeError",
                   "Cannot add rigid_group to collection. Rigid group not found: "
                   \o lost_groups[1])
        ELSE Ok(detector)

\* d__ of one panel
Determinant(panel) ==
    RSub(RMul(panel.fsx, panel.ssy), RMul(panel.ssx, panel.fsy))

IsSingular(panel) == RIsZero(Determinant(panel))

\* the coefficients with the fast-scan and slow-scan components exchanged
InvertExchanged(panel) ==
    LET d__ == Determinant(panel)
    IN  [panel EXCEPT !.xfs = RDiv(panel.fsx, d__), !.yfs = RDiv(panel.fsy, d__),
                      !.xss = RDiv(panel.ssx, d__), !.yss = RDiv(panel.ssy, d__)]

\* the inverse coefficients of one panel with a non-zero determinant
Invert(panel) ==
    LET d__ == Determinant(panel)
    IN  [panel EXCEPT !.xfs = RDiv(panel.ssy, d__), !.yfs = RDiv(panel.ssx, d__),
                      !.xss = RDiv(panel.fsy, d__), !.yss = RDiv(panel.fsx, d__)]

CheckTransforms(detector) ==
    IF \E k \in 1..Len(detector.panels) : IsSingular(detector.panels[k].v)
    THEN Raise("RuntimeError", "Panel {} transformation is singular.")
    ELSE Ok([detector EXCEPT !.panels =
               [k \in 1..Len(@) |-> [k |-> @[k].k, v |-> Invert(@[k].v)]]])

(***************************************************************************)
(* _check_point and _find_min_max_d.  Distances are kept as their squares, *)
(* which compare as the distances do.                                      *)
(***************************************************************************)
\* the running extrema and the detector that records where they were found
Extrema(min_d, max_d, detector) ==
    [min_d |-> min_d, max_d |-> max_d, detector |-> detector]

_check_point(name, panel, fs_, ss_, min_d, max_d, detector) ==
    LET xs_ == RAdd(RMul(fs_, panel.fsx), RMul(ss_, panel.ssx))
        ys_ == RAdd(RMul(fs_, panel.fsy), RMul(ss_, panel.ssy))
        rx_ == RDiv(RAdd(xs_, panel.cnx), panel.res)
        ry_ == RDiv(RAdd(ys_, panel.cny), panel.res)
        dist == RAdd(RMul(rx_, rx_), RMul(ry_, ry_))
    IN  IF RIsZero(panel.res)
        THEN Raise("ZeroDivisionError", "float division by zero")
        ELSE IF panel.cny = None
        THEN Raise("TypeError",
                   "unsupported operand type(s) for +: 'float' and 'NoneType'")
        ELSE IF RLt(max_d, dist)
        THEN Ok(Extrema(min_d, dist,
                        [detector EXCEPT !.furthest_out_panel = Str(name),
                                         !.furthest_out_fs = fs_,
                                         !.furthest_out_ss = ss_]))
        ELSE IF min_d = Inf \/ RLt(dist, min_d)
        THEN Ok(Extrema(dist, max_d,
                        [detector EXCEPT !.furthest_in_panel = Str(name),
                                         !.furthest_in_fs = fs_,
                                         !.furthest_in_ss = ss_]))
        ELSE Ok(Extrema(min_d, max_d, detector))

\* the four corners of a panel, in the order they are checked
Corners(panel) ==
    << <<PyInt(0), PyInt(0)>>, <<panel.w, PyInt(0)>>,
       <<PyInt(0), panel.h>>, <<panel.w, panel.h>> >>

\* the checks from corner c of panel k on
RECURSIVE FindFrom(_, _, _)
FindFrom(e, k, c) ==
    IF k > Len(e.detector.panels) THEN Ok(e.detector)
    ELSE IF c > 4 THEN FindFrom(e, k + 1, 1)
    ELSE LET panel == e.detector.panels[k].v
             r == _check_point(e.detector.panels[k].k, panel,
                               Corners(panel)[c][1], Corners(panel)[c][2],
                               e.min_d, e.max_d, e.detector)
         IN  IF r.ok THEN FindFrom(r.v, k, c + 1) ELSE r

_find_min_max_d(detector) == FindFrom(Extrema(Inf, PyInt(0), detector), 1, 1)

(***************************************************************************)
(* compute_pix_maps (float32 rounding is not modelled; r is kept as its    *)
(* square).                                                                *)
(***************************************************************************)
MaxOf(S) == CHOOSE m \in S : \A n \in S : n <= m

\* the camera length written into the z map
PanClen(panel) == IF panel.clen # Absent THEN panel.clen ELSE PyInt(0)

InWindow(panel, s, f) ==
    /\ panel.min_ss.n <= s /\ s <= panel.max_ss.n
    /\ panel.min_fs.n <= f /\ f <= panel.max_fs.n

\* the x, y and z the panel gives to the cell (s, f) of its window
PanelX(panel, s, f) ==
    RAdd(RAdd(RMul(PyInt(s - panel.min_ss.n), panel.ssx),
              RMul(PyInt(f - panel.min_fs.n), panel.fsx)), panel.cnx)
PanelY(panel, s, f) ==
    RAdd(RAdd(RMul(PyInt(s - panel.min_ss.n), panel.ssy),
              RMul(PyInt(f - panel.min_fs.n), panel.fsy)), panel.cny)

\* the copying of the panels in which a cell keeps what the first panel that
\* covers it wrote
RECURSIVE PlacePanelsFirst(_, _, _)
PlacePanelsFirst(panels, k, m) ==
    IF k > Len(panels) THEN m
    ELSE LET pan == panels[k].v
         IN  PlacePanelsFirst(panels, k + 1,
               [x |-> [c \in DOMAIN m.x |->
                         IF InWindow(pan, c[1], c[2])
                            /\ \A j \in 1..(k - 1) : ~InWindow(panels[j].v, c[1], c[2])
                         THEN PanelX(pan, c[1], c[2]) ELSE m.x[c]],
                y |-> [c \in DOMAIN m.y |->
                         IF InWindow(pan, c[1], c[2])
                            /\ \A j \in 1..(k - 1) : ~InWindow(panels[j].v, c[1], c[2])
                         THEN PanelY(pan, c[1], c[2]) ELSE m.y[c]],
                z |-> [c \in DOMAIN m.z |->
                         IF InWindow(pan, c[1], c[2])
                            /\ \A j \in 1..(k - 1) : ~InWindow(panels[j].v, c[1], c[2])
                         THEN PanClen(pan) ELSE m.z[c]]])

\* the maps after the panels from k on have been copied into them
RECURSIVE PlacePanels(_, _, _)
PlacePanels(panels, k, m) ==
    IF k > Len(panels) THEN m
    ELSE LET pan == panels[k].v
         IN  PlacePanels(panels, k + 1,
               [x |-> [c \in DOMAIN m.x |->
                         IF InWindow(pan, c[1], c[2])
                         THEN PanelX(pan, c[1], c[2]) ELSE m.x[c]],
                y |-> [c \in DOMAIN m.y |->
                         IF InWindow(pan, c[1], c[2])
                         THEN PanelY(pan, c[1], c[2]) ELSE m.y[c]],
                z |-> [c \in DOMAIN m.z |->
                         IF InWindow(pan, c[1], c[2])
                         THEN PanClen(pan) ELSE m.z[c]]])

compute_pix_maps(geometry) ==
    LET panels == geometry.panels
        max_fs_in_slab == MaxOf({panels[k].v.max_fs.n : k \in 1..Len(panels)})
        max_ss_in_slab == MaxOf({panels[k].v.max_ss.n : k \in 1..Len(panels)})
        cells == (0..max_ss_in_slab) \X (0..max_fs_in_slab)
        zeros == [c \in cells |-> PyInt(0)]
        m == PlacePanels(panels, 1, [x |-> zeros, y |-> zeros, z |-> zeros])
    IN  [x |-> m.x, y |-> m.y, z |-> m.z,
         r |-> [c \in cells |-> RAdd(RMul(m.x[c], m.x[c]), RMul(m.y[c], m.y[c]))]]

(***************************************************************************)
(* compute_min_array_size, compute_visualization_pix_maps and              *)
(* apply_geometry_to_data.  An array is a function over its cells (row,    *)
(* column), both counted from 0.                                           *)
(***************************************************************************)
\* int() of a float, and the conversion of a float array to int: the integer
\* towards zero
Trunc(a) == IF a.n >= 0 THEN a.n \div a.d ELSE -((-a.n) \div a.d)

RAbs(a) == [a EXCEPT !.n = Abs(a.n)]

\* ndarray.max() and ndarray.min()
ArrayMax(m) ==
    CHOOSE v \in {m[c] : c \in DOMAIN m} : \A c \in DOMAIN m : ~RLt(v, m[c])
ArrayMin(m) ==
    CHOOSE v \in {m[c] : c \in DOMAIN m} : \A c \in DOMAIN m : ~RLt(m[c], v)

\* the minimum without the two pixels added for good measure
MinimumOfTight(m) ==
    2 * Trunc(IF RLt(RAbs(ArrayMax(m)), RAbs(ArrayMin(m)))
              THEN RAbs(ArrayMin(m)) ELSE RAbs(ArrayMax(m)))

\* 2 * int(max(abs(m.max()), abs(m.min()))) + 2
MinimumOf(m) ==
    2 * Trunc(IF RLt(RAbs(ArrayMax(m)), RAbs(ArrayMin(m)))
              THEN RAbs(ArrayMin(m)) ELSE RAbs(ArrayMax(m))) + 2

compute_min_array_size(pixel_maps) ==
    <<MinimumOf(pixel_maps.y), MinimumOf(pixel_maps.x)>>

\* the x and y of compute_visualization_pix_maps once the pixel maps and the
\* minimum shape are known
Shifted(pixel_maps, min_shape) ==
    [x |-> [c \in DOMAIN pixel_maps.x |->
              Trunc(pixel_maps.x[c]) + (min_shape[2] \div 2) - 1],
     y |-> [c \in DOMAIN pixel_maps.y |->
              Trunc(pixel_maps.y[c]) + (min_shape[1] \div 2) - 1]]

compute_visualization_pix_maps(geometry) ==
    Shifted(compute_pix_maps(geometry),
            compute_min_array_size(compute_pix_maps(geometry)))

\* the cells of an array in the order flatten() and ravel() list them
RowMajor(cells) ==
    LET columns == MaxOf({c[2] : c \in cells}) + 1
    IN  [i \in 1..Cardinality(cells) |->
            <<(i - 1) \div columns, (i - 1) % columns>>]

\* an index of an axis of the length: a negative one counts from the end
InRange(i, length) == -length <= i /\ i < length
Wrapped(i, length) == IF i < 0 THEN i + length ELSE i

\* the assignment in which the first value written to a place stays
ScatterFirst(shape, ys, xs, values) ==
    IF \E i \in 1..Len(ys) : ~InRange(ys[i], shape[1]) \/ ~InRange(xs[i], shape[2])
    THEN Raise("IndexError", "index is out of bounds")
    ELSE Ok([t \in (0..(shape[1] - 1)) \X (0..(shape[2] - 1)) |->
               LET hits == {i \in 1..Len(ys) :
                              /\ Wrapped(ys[i], shape[1]) = t[1]
                              /\ Wrapped(xs[i], shape[2]) = t[2]}
               IN  IF hits = {} THEN PyInt(0)
                   ELSE values[CHOOSE i \in hits : \A j \in hits : i <= j]])

\* array[ys, xs] = values on a zero array of the shape: the places are
\* written in order, so the last value written to a place stays
Scatter(shape, ys, xs, values) ==
    IF \E i \in 1..Len(ys) : ~InRange(ys[i], shape[1]) \/ ~InRange(xs[i], shape[2])
    THEN Raise("IndexError", "index is out of bounds")
    ELSE Ok([t \in (0..(shape[1] - 1)) \X (0..(shape[2] - 1)) |->
               LET hits == {i \in 1..Len(ys) :
                              /\ Wrapped(ys[i], shape[1]) = t[1]
                              /\ Wrapped(xs[i], shape[2]) = t[2]}
               IN  IF hits = {} THEN PyInt(0) ELSE values[MaxOf(hits)]])

\* apply_geometry_to_data once the visualization maps and the shape are known
Applied(data, visual, min_array_shape) ==
    Scatter(min_array_shape,
            [i \in 1..Cardinality(DOMAIN visual.y) |->
                visual.y[RowMajor(DOMAIN visual.y)[i]]],
            [i \in 1..Cardinality(DOMAIN visual.x) |->
                visual.x[RowMajor(DOMAIN visual.x)[i]]],
            [i \in 1..Cardinality(DOMAIN data) |-> data[RowMajor(DOMAIN data)[i]]])

apply_geometry_to_data(data_, geometry) ==
    Applied(data_, compute_visualization_pix_maps(geometry),
            compute_min_array_size(compute_pix_maps(geometry)))

(***************************************************************************)
(* The geometry files the model loads: a preamble of assignments followed  *)
(* by up to MaxBody lines drawn from a set.                                *)
(***************************************************************************)
FileNames == {"a.geom", "det/b.geom"}

\* the assignments of the one-panel file, under the prefix ("p/" for the
\* panel p, "" for top-level lines that set the default panel)
Required(prefix, max_fs, max_ss) ==
    << prefix \o "min_fs = 0", prefix \o "max_fs = " \o max_fs,
       prefix \o "min_ss = 0", prefix \o "max_ss = " \o max_ss,
       prefix \o "corner_x = 0", prefix \o "fs = x", prefix \o "ss = y",
       prefix \o "clen = 0.1", prefix \o "res = 1000",
       prefix \o "adu_per_eV = 1" >>

Without(seq, k) == SubSeq(seq, 1, k - 1) \o SubSeq(seq, k + 1, Len(seq))

Bodies(lines) == UNION {[1..n -> lines] : n \in 0..MaxBody}

\* top-level defaults that make every panel complete
TopPreamble == Required("", "1", "1") \o <<"corner_y = 0">>
\* the files that continue a preamble with a body over the lines
FilesOver(preambles, lines) ==
    {pre \o b : pre \in preambles, b \in Bodies(lines)}

\* the files that put a body over the lines between a preamble and the
\* closing lines
FilesAround(preambles, lines, closing) ==
    {pre \o b \o closing : pre \in preambles, b \in Bodies(lines)}

(***************************************************************************)
(* State of one call of load_crystfel_geometry followed by one call of     *)
(* compute_pix_maps on the model it returned.                              *)
(***************************************************************************)
VARIABLES
    filename,       \* the path given by the caller
    io,             \* "ok", or the errno with which open or readlines fails
    file,           \* the lines of the file
    pc,             \* where the call is
    line_no,        \* the number of lines consumed
    detector, beam, default_panel,
    err,            \* the exception the call raised, NoErr if none
    maps,           \* the result of compute_pix_maps, None before it ran
    data,           \* the array given to apply_geometry_to_data
    visual_pixel_maps,      \* what compute_visualization_pix_maps returned
    visualization_array,    \* what apply_geometry_to_data returned
    direct          \* a direct call of _dir_conv: its arguments and result

vars ==
    <<filename, io, file, pc, line_no, detector, beam, default_panel, err, maps,
      data, visual_pixel_maps, visualization_array, direct>>
\* what the load and compute_pix_maps leave alone
applied == <<data, visual_pixel_maps, visualization_array, direct>>
inputs == <<filename, io, file>>

InitWith(files) ==
    /\ filename \in FileNames
    /\ \/ io = "ok" /\ file \in files
       \/ io \in {"ENOENT", "EIO"} /\ file = <<>>
    /\ pc = "open"
    /\ line_no = 0
    /\ detector = detector_init
    /\ beam = beam_init
    /\ default_panel = default_panel_init
    /\ err = NoErr
    /\ maps = None
    /\ data = None
    /\ visual_pixel_maps = None
    /\ visualization_array = None
    /\ direct = None

\* the exception open() or readlines() raises
IOFailure ==
    IF io = "ENOENT"
    THEN Exc("IOError", "[Errno 2] No such file or directory: '" \o filename \o "'")
    ELSE Exc("IOError", "[Errno 5] Input/output error")

\* an except clause that catches every exception
PropagatedAll(exc) ==
    Exc("RuntimeError",
        "The following error occurred while reading the " \o filename
        \o " geometryfile " \o exc.type \o ": " \o exc.msg)

\* the except clause of the load: an IOError or OSError is replaced by a
\* RuntimeError that names the file, anything else propagates as it is
Propagated(exc) ==
    IF exc.type \in {"IOError", "OSError"}
    THEN Exc("RuntimeError",
             "The following error occurred while reading the " \o filename
             \o " geometryfile " \o exc.type \o ": " \o exc.msg)
    ELSE exc

\* the call ends with the exception exc
Fails(exc) ==
    /\ pc' = "raised"
    /\ err' = Propagated(exc)

\* the end of a validation pass with the result r: on to the position to
Pass(r, to) ==
    /\ IF r.ok
       THEN /\ detector' = r.v
            /\ pc' = to
            /\ err' = err
       ELSE /\ Fails(r.exc)
            /\ detector' = detector
    /\ UNCHANGED <<inputs, line_no, beam, default_panel, maps, applied>>

Open ==
    /\ pc = "open"
    /\ IF io = "ok"
       THEN pc' = "lines" /\ err' = err
       ELSE Fails(IOFailure)
    /\ UNCHANGED <<inputs, line_no, detector, beam, default_panel, maps, applied>>

ReadLine ==
    /\ pc = "lines"
    /\ line_no < Len(file)
    /\ \E r \in {ParseLine(file[line_no + 1], detector, beam, default_panel)} :
           IF r.ok
           THEN /\ detector' = r.v.detector
                /\ beam' = r.v.beam
                /\ default_panel' = r.v.panel
                /\ pc' = pc
                /\ err' = err
           ELSE /\ Fails(r.exc)
                /\ UNCHANGED <<detector, beam, default_panel>>
    /\ line_no' = line_no + 1
    /\ UNCHANGED <<inputs, maps, applied>>

\* the end of the file: the checks of the placeholder counts
ValidatePlaceholders ==
    /\ pc = "lines"
    /\ line_no = Len(file)
    /\ \E r \in {CheckPlaceholders(detector)} : Pass(r, "dims")

ValidateDims ==
    /\ pc = "dims"
    /\ \E r \in {CheckDims(detector)} : Pass(r, "panels")

ValidatePanels ==
    /\ pc = "panels"
    /\ \E r \in {CheckPanels(detector)} : Pass(r, "bad")

ValidateBadRegions ==
    /\ pc = "bad"
    /\ \E r \in {CheckBadRegions(detector)} : Pass(r, "rigid")

ValidateRigidGroups ==
    /\ pc = "rigid"
    /\ \E r \in {CheckRigidGroups(detector)} : Pass(r, "transform")

ValidateTransforms ==
    /\ pc = "transform"
    /\ \E r \in {CheckTransforms(detector)} : Pass(r, "minmax")

FindMinMaxD ==
    /\ pc = "minmax"
    /\ \E r \in {_find_min_max_d(detector)} : Pass(r, "returned")

ComputePixMaps ==
    /\ pc = "returned"
    /\ maps' = compute_pix_maps(detector)
    /\ pc' = "mapped"
    /\ UNCHANGED <<inputs, line_no, detector, beam, default_panel, err, applied>>

\* the data arrays given to apply_geometry_to_data: of the shape of the
\* pixel maps, every cell with a value of its own, counted in row-major
\* order from the value first
DataArrays(cells) ==
    {[c \in cells |->
        PyInt(first + CHOOSE i \in 1..Cardinality(cells) : RowMajor(cells)[i] = c)] :
          first \in {0, 10}}

ApplyGeometryToData ==
    /\ pc = "mapped"
    /\ \E d \in DataArrays(DOMAIN maps.x) :
          /\ data' = d
          /\ visual_pixel_maps' = compute_visualization_pix_maps(detector)
          /\ \E r \in {apply_geometry_to_data(d, detector)} :
                IF r.ok
                THEN /\ visualization_array' = r.v
                     /\ pc' = "applied"
                     /\ err' = err
                ELSE /\ visualization_array' = visualization_array
                     /\ pc' = "apply_raised"
                     /\ err' = r.exc
    /\ UNCHANGED <<inputs, line_no, detector, beam, default_panel, maps, direct>>

Next ==
    \/ Open
    \/ ReadLine
    \/ ValidatePlaceholders
    \/ ValidateDims
    \/ ValidatePanels
    \/ ValidateBadRegions
    \/ ValidateRigidGroups
    \/ ValidateTransforms
    \/ FindMinMaxD
    \/ ComputePixMaps
    \/ ApplyGeometryToData

(***************************************************************************)
(* Specifications: the same program over different families of files.      *)
(***************************************************************************)
\* Spec: assignments of panel fields after the top-level defaults
FieldLines ==
    {"p/corner_x = 2", "p/bogus = 1", "bogus = 1", "p/rail_direction = z",
     "p/rail_direction = x", "p/clen_for_centering = 1",
     "p/clen = /LCLS/clen", "p/res = abc"}

Init == InitWith(FilesOver({TopPreamble}, FieldLines))
Spec == Init /\ [][Next]_vars

\* SpecReq: the one-panel file of panel p with none or one of its lines
\* left out, then lines that do not assign the fields left out
PanelPreamble == Required("p/", "9", "4") \o <<"p/corner_y = 0">>
ReqPreambles ==
    {PanelPreamble} \cup {Without(PanelPreamble, k) : k \in 1..Len(PanelPreamble)}
ReqLines == {"p/adu_per_photon = 2", "p/coffset = 1", "; p/min_fs = 0"}

InitReq == InitWith(FilesOver(ReqPreambles, ReqLines))
SpecReq == InitReq /\ [][Next]_vars

\* SpecDir: direction assignments to two panels
DirLines ==
    {"p/fs = x", "p/ss = x", "p/ss = x+0y", "p/fs = -y", "p/ss = 0.5x -y",
     "q/ss = 2y", "q/fs = 0x", "q/fs = y"}

InitDir == InitWith(FilesOver({TopPreamble}, DirLines))
SpecDir == InitDir /\ [][Next]_vars

\* SpecRigid: rigid groups and collections around the panels p and q
RigidLines ==
    {"rigid_group_g = p", "rigid_group_g = p,q", "rigid_group_h = q",
     "q/corner_x = 1", "rigid_group_collection_c = g",
     "rigid_group_collection_c = g,h", "r/rigid_group = g"}

InitRigid == InitWith(FilesOver({TopPreamble \o <<"p/corner_x = 2">>}, RigidLines))
SpecRigid == InitRigid /\ [][Next]_vars

\* SpecBad: fields of two bad regions next to the panel p
BadLines ==
    {"bad1/min_x = 1", "bad1/max_y = 2", "bad1/min_fs = 1", "bad1/max_ss = 1",
     "bad1/panel = p", "bad2/min_ss = 0", "bad2/max_x = 3"}

InitBad == InitWith(FilesOver({TopPreamble \o <<"p/corner_x = 2">>}, BadLines))
SpecBad == InitBad /\ [][Next]_vars

\* SpecGeom: the panel p on the window (0..1, 0..1) and the panel q on the
\* cell (0, 3) of a slab of two rows and four columns, then lines that move,
\* turn, shrink or overlap them
GeomPreamble ==
    TopPreamble \o <<"p/corner_x = -1", "q/min_fs = 3", "q/max_fs = 3",
                     "q/max_ss = 0", "q/corner_x = 2">>
GeomLines ==
    {"q/min_fs = 1", "p/corner_x = -0.5", "p/fs = 0.5x", "q/corner_y = -3",
     "p/ss = -y", "q/fs = -x", "p/min_ss = 1", "q/corner_x = -1"}

InitGeom == InitWith(FilesOver({GeomPreamble}, GeomLines))
SpecGeom == InitGeom /\ [][Next]_vars

\* SpecEntities: lines that mention panels and bad regions, and lines that
\* are skipped
SpecEntities ==
    /\ InitWith(FilesOver({TopPreamble},
           {"q/corner_x = 1", "p/corner_y = 2", "q/corner_y = 3",
            "bad1/min_x = 1", "bad1/max_x = 4", "badq/min_fs = 0",
            "; r/corner_x = 3", "r/corner_x 1 2", "r/corner_x ="}))
    /\ [][Next]_vars

\* SpecDefaults: top-level assignments of panel fields before, between and
\* after the lines that create the panels p and q
SpecDefaults ==
    /\ InitWith(FilesOver({TopPreamble, TopPreamble \o <<"p/corner_x = 4">>},
           {"coffset = 1", "coffset = 2", "corner_x = 5", "p/coffset = 3",
            "q/corner_x = 7", "q/coffset = 9", "p/corner_x = 6"}))
    /\ [][Next]_vars

\* SpecDim: dimN assignments at top level and to the panels p and q, before
\* the line that makes sure the panel p exists
TopDims == <<"dim0 = %", "dim1 = ss", "dim2 = fs">>
DimLines ==
    {"dim0 = fs", "dim1 = ss", "dim3 = %", "dim0 = 1", "q/dim3 = 5",
     "p/dim1 = fs", "q/dim4 = 7", "q/dim0 = %"}

InitDim ==
    InitWith(FilesAround({TopPreamble, TopPreamble \o TopDims}, DimLines,
                         <<"p/corner_x = 2">>))
SpecDim == InitDim /\ [][Next]_vars

\* SpecMask: masks and placeholders of the panels p and q
MaskLines ==
    {"p/mask = /m/%/a", "q/mask = /m/%/%", "q/mask = /m/%", "mask = /%",
     "q/dim0 = 1", "q/corner_x = 1", "dim0 = 1", "mask = m"}

InitMask ==
    InitWith(FilesAround({TopPreamble, TopPreamble \o TopDims}, MaskLines,
                         <<"p/corner_x = 2">>))
SpecMask == InitMask /\ [][Next]_vars

(***************************************************************************)
(* Direct calls of _dir_conv: a base vector and an expression written from *)
(* up to MaxTerms terms, each a sign, a magnitude and a last character.    *)
(***************************************************************************)
MaxTerms == 2
Magnitudes == {"", "0.5"}
LastChars == {"x", "y", "z", "w"}
Terms == [sign : {"", "+", "-"}, mag : Magnitudes, axis : LastChars]

\* the sequences of terms in which only the first may lack its sign
TermSeqs ==
    UNION {{ts \in [1..n -> Terms] : \A k \in 2..n : ts[k].sign # ""} :
              n \in 0..MaxTerms}

\* the expression as it is written
RECURSIVE Render(_)
Render(ts) ==
    IF ts = <<>> THEN ""
    ELSE Head(ts).sign \o Head(ts).mag \o Head(ts).axis \o Render(Tail(ts))

Bases ==
    { <<None, None, None>>, <<PyInt(1), PyInt(0), PyInt(0)>>,
      <<Num(1, 2), PyInt(-1), PyInt(2)>> }
Pads == {"", " "}

InitDirConv ==
    /\ filename = "a.geom" /\ io = "ok" /\ file = <<>>
    /\ pc = "direct"
    /\ line_no = 0
    /\ detector = detector_init
    /\ beam = beam_init
    /\ default_panel = default_panel_init
    /\ err = NoErr
    /\ maps = None
    /\ data = None
    /\ visual_pixel_maps = None
    /\ visualization_array = None
    /\ direct \in {[direction |-> b, terms |-> ts,
                    value |-> pad \o Render(ts) \o pad, out |-> None] :
                      b \in Bases, ts \in TermSeqs, pad \in Pads}

CallDirConv ==
    /\ pc = "direct"
    /\ direct' = [direct EXCEPT !.out =
                     _dir_conv(direct.direction[1], direct.direction[2],
                               direct.direction[3], direct.value)]
    /\ pc' = "direct_done"
    /\ UNCHANGED <<inputs, line_no, detector, beam, default_panel, err, maps,
                   data, visual_pixel_maps, visualization_array>>

NextDirConv == CallDirConv
SpecDirConv == InitDirConv /\ [][NextDirConv]_vars

(***************************************************************************)
(* Vocabulary of the properties.                                           *)
(***************************************************************************)
\* the load has ended, with a model or with an exception
Returned == pc \in {"returned", "mapped", "applied", "apply_raised"}
Raised == pc = "raised"
Done == Returned \/ Raised

\* s contains sub
Contains(s, sub) ==
    \E k \in 1..(Len(s) - Len(sub) + 1) : SubSeq(s, k, k + Len(sub) - 1) = sub

\* line k of the file assigns the field of the entity (a panel or bad region)
Assigns(k, entity, field) ==
    /\ ~Skipped(file[k])
    /\ Len(KeyPath(LineItems(file[k])[1])) >= 2
    /\ KeyPath(LineItems(file[k])[1])[1] = entity
    /\ KeyPath(LineItems(file[k])[1])[2] = field
ValueOf(k) == Join(SubSeq(LineItems(file[k]), 3, Len(LineItems(file[k]))))
Assigned(entity, field) == \E k \in 1..Len(file) : Assigns(k, entity, field)

\* the panel of the model under the name
PanelOf(name) == Get(detector.panels, name)

(***************************************************************************)
(* C1                                                                      *)
(***************************************************************************)
\* the one-panel file: the ten assignments and no corner_y line
MinimalFile == Required("p/", "9", "4")

\* C1: loading the one-panel file whose only assignments are min_fs=0,
\* max_fs=9, min_ss=0, max_ss=4, corner_x=0, fs=x, ss=y, clen=0.1, res=1000
\* and adu_per_eV=1 raises nothing and returns a model whose panel has w=10
\* and h=5.
C1_MinimalFileLoads ==
    (file = MinimalFile /\ io = "ok") =>
        /\ ~Raised
        /\ Returned => /\ PanelOf("p").w = PyInt(10)
                       /\ PanelOf("p").h = PyInt(5)

(***************************************************************************)
(* C2                                                                      *)
(***************************************************************************)
SingularMsg == "Panel {} transformation is singular."

\* every panel-scope line of the file addresses the panel
OnlyPanel(name) ==
    \A k \in 1..Len(file) :
        (~Skipped(file[k]) /\ Len(KeyPath(LineItems(file[k])[1])) >= 2)
            => KeyPath(LineItems(file[k])[1])[1] = name

\* the panel is assigned fs and ss, and only with these two expressions
OnlyDirs(name, fs, ss) ==
    /\ Assigned(name, "fs") /\ Assigned(name, "ss")
    /\ \A k \in 1..Len(file) :
        /\ Assigns(k, name, "fs") => ValueOf(k) = fs
        /\ Assigns(k, name, "ss") => ValueOf(k) = ss

\* C2 as stated: a load in which a panel is assigned fs=x and ss=x, and that
\* is otherwise complete and valid, fails with the singular-transformation
\* error and returns no model.
C2_ParallelAxesFail ==
    (Done /\ io = "ok" /\ OnlyPanel("p") /\ OnlyDirs("p", "x", "x")) =>
        (Raised /\ err = Exc("RuntimeError", SingularMsg))

\* C2 as amended: with fs=x and ss=x+0y both final directions are (1,0,0) and
\* the load fails with the singular-transformation error; with fs=x and ss=x
\* the slow-scan direction keeps the y component it had (1), d is 1 and the
\* load returns a model.
C2_FinalParallelAxesFail ==
    (Done /\ io = "ok" /\ OnlyPanel("p")) =>
        /\ OnlyDirs("p", "x", "x+0y") =>
              (Raised /\ err = Exc("RuntimeError", SingularMsg))
        /\ OnlyDirs("p", "x", "x") =>
              /\ Returned
              /\ PanelOf("p").ssx = PyInt(1) /\ PanelOf("p").ssy = PyInt(1)
              /\ PanelOf("p").fsx = PyInt(1) /\ PanelOf("p").fsy = PyInt(0)

C2_Witness ==
    /\ Raised /\ err = Exc("RuntimeError", SingularMsg)
    /\ OnlyPanel("p") /\ OnlyDirs("p", "x", "x+0y")

(***************************************************************************)
(* C3                                                                      *)
(***************************************************************************)
\* the field names _parse_field_for_panel has a branch for
PanelFields ==
    {"min_fs", "max_fs", "min_ss", "max_ss", "corner_x", "corner_y",
     "rail_direction", "clen_for_centering", "adu_per_eV", "adu_per_photon",
     "rigid_group", "clen", "data", "mask", "mask_file", "saturation_map",
     "saturation_map_file", "coffset", "res", "max_adu", "badrow_direction",
     "no_index", "fs", "ss"}
\* the keys _parse_toplevel handles itself
TopFields ==
    {"mask_bad", "mask_good", "coffset", "photon_energy",
     "photon_energy_scale", "peak_info_location"}

UnknownPanelField(key) == key \notin PanelFields /\ ~StartsWith(key, "dim")

\* line k assigns a field that is not in the panel dispatch table, at panel
\* scope or as a bare top-level key that falls through to the panel setter
Unrecognized(k) ==
    /\ ~Skipped(file[k])
    /\ LET path == KeyPath(LineItems(file[k])[1])
           key == LineItems(file[k])[1]
       IN  IF Len(path) >= 2
           THEN ~StartsWith(path[1], "bad") /\ UnknownPanelField(path[2])
           ELSE /\ key \notin TopFields /\ ~StartsWith(key, "rigid_group")
                /\ UnknownPanelField(key)

\* C3: an assignment whose field is not in the panel dispatch table, at panel
\* scope or as a bare top-level key, aborts the load with an
\* unrecognized-field error; no model is returned with the line ignored.
C3_UnrecognizedFieldFails ==
    \A k \in 1..Len(file) :
        (Done /\ Unrecognized(k) /\ line_no >= k) =>
            /\ Raised
            /\ StartsWith(err.msg, "Unrecognized field")

(***************************************************************************)
(* C4                                                                      *)
(***************************************************************************)
\* C4: when some panel receives a rail_direction assignment and never
\* clen_for_centering the load fails; a panel with no rail_direction
\* assignment ends with rail (0,0,1), and with clen_for_centering 0 when that
\* was not assigned.
C4_RailNeedsClenForCentering ==
    (Done /\ io = "ok") =>
        \A k \in 1..Len(detector.panels) :
            LET name == detector.panels[k].k
                panel == detector.panels[k].v
            IN  /\ (Assigned(name, "rail_direction")
                      /\ ~Assigned(name, "clen_for_centering")) => Raised
                /\ (Returned /\ ~Assigned(name, "rail_direction")) =>
                      /\ <<panel.rail_x, panel.rail_y, panel.rail_z>>
                            = <<PyInt(0), PyInt(0), PyInt(1)>>
                      /\ ~Assigned(name, "clen_for_centering")
                            => panel.clen_for_centering = PyInt(0)

(***************************************************************************)
(* C5                                                                      *)
(***************************************************************************)
\* the panel never receives one of the required fields
LacksRequired(name) ==
    \/ \E f \in {"min_fs", "max_fs", "min_ss", "max_ss", "corner_x", "clen", "res"} :
          ~Assigned(name, f)
    \/ ~Assigned(name, "adu_per_eV") /\ ~Assigned(name, "adu_per_photon")

\* C5: when some panel never receives one of the required fields and all
\* else is valid, the load aborts with the completeness error ("Please
\* specify ..." naming the panel) and with no other kind of failure.
C5_MissingFieldIsCompletenessError ==
    (Done /\ io = "ok" /\ LacksRequired("p") /\ Assigned("p", "corner_y")) =>
        /\ Raised
        /\ err.type = "RuntimeError"
        /\ StartsWith(err.msg, "Please specify")
        /\ Contains(err.msg, " panel p.")

(***************************************************************************)
(* C6                                                                      *)
(***************************************************************************)
\* the cell is in the window of panel k and of no panel copied after it
KeepsCell(k, c) ==
    /\ InWindow(detector.panels[k].v, c[1], c[2])
    /\ \A j \in (k + 1)..Len(detector.panels) :
          ~InWindow(detector.panels[j].v, c[1], c[2])

\* C6: for every panel whose camera length was given as a source path (a
\* non-numeric clen, stored in clen_from) compute_pix_maps fills the panel's
\* window of the z map with 0.0; a panel with a numeric clen gets that value
\* in its window.
C6_DynamicClenIsZero ==
    pc = "mapped" =>
        \A k \in 1..Len(detector.panels) : \A c \in DOMAIN maps.z :
            KeepsCell(k, c) =>
                maps.z[c] = IF detector.panels[k].v.clen_from # None
                            THEN PyInt(0)
                            ELSE detector.panels[k].v.clen

(***************************************************************************)
(* C7                                                                      *)
(***************************************************************************)
\* C7 as stated: every failure of the load, from an unreadable file, a line
\* that does not parse or a validation check, is reported as an error whose
\* message embeds the file path given by the caller.
C7_EveryFailureNamesTheFile ==
    Raised => Contains(err.msg, filename)

\* C7 as amended: a failure to open or read the file is reported as a
\* RuntimeError whose message embeds the file path and the cause; a failure
\* of a line or of a validation check is reported by the exception raised
\* there, whose message does not mention the file path.
C7_OnlyReadFailuresNameTheFile ==
    Raised =>
        IF io # "ok"
        THEN /\ err.type = "RuntimeError"
             /\ Contains(err.msg, filename)
             /\ Contains(err.msg, IOFailure.msg)
        ELSE ~Contains(err.msg, filename)

C7_Witness ==
    /\ Raised /\ io = "ok"
    /\ line_no = Len(file)
    /\ err.type = "RuntimeError"
    /\ ~Contains(err.msg, filename)

(***************************************************************************)
(* C8                                                                      *)
(***************************************************************************)
\* line k is an assignment at the scope of the entity, whatever the field
Addresses(k, entity) ==
    /\ ~Skipped(file[k])
    /\ Len(KeyPath(LineItems(file[k])[1])) >= 2
    /\ KeyPath(LineItems(file[k])[1])[1] = entity

\* line k is a top-level assignment
TopLevel(k) ==
    ~Skipped(file[k]) /\ Len(KeyPath(LineItems(file[k])[1])) < 2

\* line k defines a rigid-group collection, or a rigid group
CollectionLine(k) ==
    TopLevel(k) /\ StartsWith(LineItems(file[k])[1], "rigid_group_collection")
GroupLine(k) ==
    /\ TopLevel(k) /\ StartsWith(LineItems(file[k])[1], "rigid_group")
    /\ ~CollectionLine(k)

\* no later line assigns the key of line k again
LastOfItsKey(k) ==
    \A j \in (k + 1)..Len(file) :
        ~(TopLevel(j) /\ LineItems(file[j])[1] = LineItems(file[k])[1])

\* the names listed on line k
Members(k) == Split(ValueOf(k), ",")

\* whether the file defines the panel or the rigid group anywhere at all
FileHasPanel(name) == \E k \in 1..Len(file) : Addresses(k, name)
FileHasGroup(name) ==
    \E k \in 1..Len(file) :
        GroupLine(k) /\ LineItems(file[k])[1] = "rigid_group_" \o name

\* some name a rigid group or a collection ends up listing is defined nowhere
\* in the file
DanglesInFile ==
    \/ \E k \in 1..Len(file) :
          /\ GroupLine(k) /\ LastOfItsKey(k)
          /\ \E m \in 1..Len(Members(k)) : ~FileHasPanel(Members(k)[m])
    \/ \E k \in 1..Len(file) :
          /\ CollectionLine(k) /\ LastOfItsKey(k)
          /\ \E m \in 1..Len(Members(k)) : ~FileHasGroup(Members(k)[m])

\* every name of every list of the groups is a key of known
Resolved(groups, known) ==
    \A g \in 1..Len(groups) :
        \A m \in 1..Len(groups[g].v) : Has(known, groups[g].v[m])

\* C8: in every model the load returns, each name listed in a rigid group is
\* a key of panels and each name listed in a collection is a key of
\* rigid_groups; a file with a dangling reference fails; and whether the load
\* fails depends only on which names the file defines anywhere, not on
\* whether the defining lines come before or after the group or collection
\* line.
C8_RigidGroupsResolve ==
    /\ Returned =>
          /\ Resolved(detector.rigid_groups, detector.panels)
          /\ Resolved(detector.rigid_group_collections, detector.rigid_groups)
    /\ (Done /\ io = "ok") => (Raised <=> DanglesInFile)

\* a model is returned for a file whose rigid group lists a panel that only
\* lines after the group line define
C8_Witness ==
    /\ Returned
    /\ detector.rigid_groups # <<>>
    /\ \E k \in 1..Len(file) :
          /\ GroupLine(k)
          /\ \E m \in 1..Len(Members(k)) :
                /\ FileHasPanel(Members(k)[m])
                /\ \A j \in 1..k : ~Addresses(j, Members(k)[m])

(***************************************************************************)
(* C9                                                                      *)
(***************************************************************************)
\* d = fsx*ssy - ssx*fsy of the panel's final direction values
FinalD(panel) ==
    RSub(RMul(panel.fsx, panel.ssy), RMul(panel.ssx, panel.fsy))

\* C9: in every model the load returns every panel has d # 0 and carries
\* xfs = ssy/d, yfs = ssx/d, xss = fsy/d and yss = fsx/d (stated as the
\* products with d); a file whose lines leave some panel with d = 0 fails.
C9_TransformsInverted ==
    /\ Returned =>
          \A k \in 1..Len(detector.panels) :
              LET panel == detector.panels[k].v
                  d == FinalD(panel)
              IN  /\ d.n # 0
                  /\ RMul(panel.xfs, d) = panel.ssy
                  /\ RMul(panel.yfs, d) = panel.ssx
                  /\ RMul(panel.xss, d) = panel.fsy
                  /\ RMul(panel.yss, d) = panel.fsx
    /\ (Done /\ io = "ok" /\ line_no = Len(file)
          /\ \E k \in 1..Len(detector.panels) :
                FinalD(detector.panels[k].v).n = 0) => Raised

\* a returned panel whose determinant is neither 1 nor -1
C9_Witness ==
    /\ Returned
    /\ \E k \in 1..Len(detector.panels) :
          /\ FinalD(detector.panels[k].v) = PyInt(2)
          /\ detector.panels[k].v.yss = Num(1, 2)

(***************************************************************************)
(* C10                                                                     *)
(***************************************************************************)
CoordFields == {"min_x", "max_x", "min_y", "max_y"}
IndexFields == {"min_fs", "max_fs", "min_ss", "max_ss"}

\* the names of the bad regions the file addresses
RegionsOfFile ==
    {KeyPath(LineItems(file[k])[1])[1] :
        k \in {j \in 1..Len(file) :
                 /\ ~Skipped(file[j])
                 /\ Len(KeyPath(LineItems(file[j])[1])) >= 2
                 /\ StartsWith(KeyPath(LineItems(file[j])[1])[1], "bad")}}

\* the field line k assigns, for a line at the scope of an entity
FieldOf(k) == KeyPath(LineItems(file[k])[1])[2]

\* the region receives a coordinate field and an index field, in either order
Mixes(region) ==
    /\ \E j \in 1..Len(file) : Addresses(j, region) /\ FieldOf(j) \in CoordFields
    /\ \E k \in 1..Len(file) : Addresses(k, region) /\ FieldOf(k) \in IndexFields

\* the region receives a panel field and nothing else
OnlyPanelField(region) ==
    /\ Assigned(region, "panel")
    /\ \A k \in 1..Len(file) :
          Addresses(k, region) => Assigns(k, region, "panel")

\* C10: a load whose file assigns one bad region a coordinate field (min_x,
\* max_x, min_y, max_y) and an index field (min_fs, max_fs, min_ss, max_ss),
\* in either order, fails; in every returned model each bad region's is_fsss
\* is true or false, never the sentinel 99; a load whose file gives a bad
\* region only a panel field fails.
C10_BadRegionKinds ==
    /\ (Done /\ io = "ok") =>
          \A region \in RegionsOfFile :
              (Mixes(region) \/ OnlyPanelField(region)) => Raised
    /\ Returned =>
          \A k \in 1..Len(detector.bad) :
              detector.bad[k].v.is_fsss \in {Bool(TRUE), Bool(FALSE)}

\* the load failed on the second field of a region that mixes the two kinds
C10_Witness ==
    /\ Raised
    /\ Mixes("bad1")
    /\ err = Exc("RuntimeError", "You can't mix x/y and fs/ss in a bad region")

(***************************************************************************)
(* C11                                                                     *)
(***************************************************************************)
\* line k assigns a dimN field at the scope of the panel
AssignsDim(k, name) == Addresses(k, name) /\ StartsWith(FieldOf(k), "dim")
\* line k assigns a dimN field at top level
AssignsTopDim(k) == TopLevel(k) /\ StartsWith(LineItems(file[k])[1], "dim")
\* the panel is first mentioned after line k
CreatedAfter(name, k) == \A j \in 1..k : ~Addresses(j, name)

\* no undefined entry, one "ss", one "fs", at most one "%", two entries or more
WellFormedDim(dim) ==
    /\ \A k \in 1..Len(dim) : dim[k] # None
    /\ CountOf(dim, Str("ss")) = 1 /\ CountOf(dim, Str("fs")) = 1
    /\ CountOf(dim, Str("%")) <= 1
    /\ Len(dim) >= 2

\* the dim_structures of a returned model are well formed and of one length
DimsAgree ==
    \A k \in 1..Len(detector.panels) :
        /\ WellFormedDim(detector.panels[k].v.dim_structure.v)
        /\ Len(detector.panels[k].v.dim_structure.v)
              = Len(detector.panels[1].v.dim_structure.v)

\* C11 as stated: in every returned model each panel's dim_structure has no
\* undefined entry, exactly one "ss", exactly one "fs", at most one "%", at
\* least two entries and the length of every other panel's; a panel that no
\* line assigned a dimN field has exactly ["ss", "fs"].
C11_DimStructures ==
    Returned =>
        /\ DimsAgree
        /\ \A k \in 1..Len(detector.panels) :
              (\A j \in 1..Len(file) : ~AssignsDim(j, detector.panels[k].k))
                  => detector.panels[k].v.dim_structure = default_dim

\* C11 as amended: the same about the entries and the lengths; a panel that
\* no line assigned a dimN field has ["ss", "fs"] when no top-level dimN line
\* precedes its first mention, and the dim_structure the top-level dimN lines
\* built when all of them (at least one) precede its first mention.
C11_DimStructuresWithDefaults ==
    Returned =>
        /\ DimsAgree
        /\ \A k \in 1..Len(detector.panels) :
              (\A j \in 1..Len(file) : ~AssignsDim(j, detector.panels[k].k)) =>
                  /\ (\A j \in 1..Len(file) :
                         AssignsTopDim(j) => ~CreatedAfter(detector.panels[k].k, j))
                        => detector.panels[k].v.dim_structure = default_dim
                  /\ ((\E j \in 1..Len(file) : AssignsTopDim(j))
                      /\ \A j \in 1..Len(file) :
                            AssignsTopDim(j) => CreatedAfter(detector.panels[k].k, j))
                        => detector.panels[k].v.dim_structure
                              = default_panel.dim_structure

\* a returned panel with the entries two top-level lines gave the defaults
C11_Witness ==
    /\ Returned
    /\ \A j \in 1..Len(file) : ~AssignsDim(j, "p")
    /\ PanelOf("p").dim_structure = List(<<Str("fs"), Str("ss")>>)

(***************************************************************************)
(* C12                                                                     *)
(***************************************************************************)
\* the number a term stands for: 1 for a bare term, the written number
\* otherwise, negated under a "-"
TermValue(term) ==
    LET m == CASE term.mag = "" -> PyInt(1) [] term.mag = "0.5" -> Num(1, 2)
    IN  IF term.sign = "-" THEN RNeg(m) ELSE m

\* what the axis ends with: the value of the last term that names it, the
\* base value when no term does
AxisAfter(base, ts, axis, place) ==
    LET named == {k \in 1..Len(ts) : ts[k].axis = axis}
    IN  IF named = {} THEN base[place]
        ELSE TermValue(ts[CHOOSE k \in named : \A j \in named : j <= k])

\* C12: for every base vector and every expression made of signed terms that
\* end in x, y or z, _dir_conv returns the base with each mentioned axis set
\* to its term's magnitude (1 for a bare or "+" term, -1 for a "-" term,
\* otherwise the written number) and each unmentioned axis left at the base
\* value; an expression with no terms fails with the invalid-direction
\* error; a term whose last character is not x, y or z fails with the
\* invalid-symbol error.
C12_DirConv ==
    pc = "direct_done" =>
        IF direct.terms = <<>>
        THEN direct.out = Raise("RuntimeError",
                                "Invalid direction: " \o direct.value \o ".")
        ELSE IF \E k \in 1..Len(direct.terms) :
                   direct.terms[k].axis \notin {"x", "y", "z"}
        THEN /\ ~direct.out.ok
             /\ direct.out.exc.type = "RuntimeError"
             /\ StartsWith(direct.out.exc.msg, "Invalid Symbol: ")
        ELSE direct.out =
                Ok(<<AxisAfter(direct.direction, direct.terms, "x", 1),
                     AxisAfter(direct.direction, direct.terms, "y", 2),
                     AxisAfter(direct.direction, direct.terms, "z", 3)>>)

\* "-0.5x+z" on the base (1/2, -1, 2) gave (-1/2, -1, 1)
C12_Witness ==
    /\ pc = "direct_done"
    /\ direct.value = "-0.5x+z"
    /\ direct.direction = <<Num(1, 2), PyInt(-1), PyInt(2)>>
    /\ direct.out = Ok(<<Num(-1, 2), PyInt(-1), PyInt(1)>>)

(***************************************************************************)
(* C13                                                                     *)
(***************************************************************************)
\* the pixels whose visualization coordinates are the place t of the canvas
PixelsAt(t) ==
    {c \in DOMAIN data :
        visual_pixel_maps.y[c] = t[1] /\ visual_pixel_maps.x[c] = t[2]}

\* the last pixel of a set in row-major order
LastPixel(S) ==
    CHOOSE c \in S :
        \A b \in S : b[1] < c[1] \/ (b[1] = c[1] /\ b[2] <= c[2])

Covering(c) ==
    {k \in 1..Len(detector.panels) :
        /\ detector.panels[k].v.min_ss.n <= c[1]
        /\ c[1] <= detector.panels[k].v.max_ss.n
        /\ detector.panels[k].v.min_fs.n <= c[2]
        /\ c[2] <= detector.panels[k].v.max_fs.n}

\* the shape of the maps: the largest max_ss + 1 by the largest max_fs + 1
SlabCells ==
    (0..MaxOf({detector.panels[k].v.max_ss.n : k \in 1..Len(detector.panels)}))
       \X (0..MaxOf({detector.panels[k].v.max_fs.n : k \in 1..Len(detector.panels)}))

\* C14: compute_pix_maps returns maps of the shape (largest max_ss + 1,
\* largest max_fs + 1) in which a cell (s, f) inside some panel's window
\* holds x = (s - min_ss)*ssx + (f - min_fs)*fsx + cnx and
\* y = (s - min_ss)*ssy + (f - min_fs)*fsy + cny of the last panel, in model
\* order, whose window covers it, and a cell no window covers holds
\* x = y = z = 0; overlapping windows raise no error.
C14_PixMaps ==
    pc = "mapped" =>
        /\ DOMAIN maps.x = SlabCells /\ DOMAIN maps.y = SlabCells
        /\ DOMAIN maps.z = SlabCells /\ DOMAIN maps.r = SlabCells
        /\ \A c \in SlabCells :
              IF Covering(c) = {}
              THEN /\ maps.x[c] = PyInt(0) /\ maps.y[c] = PyInt(0)
                   /\ maps.z[c] = PyInt(0)
              ELSE LET pan == detector.panels[MaxOf(Covering(c))].v
                       ds == PyInt(c[1] - pan.min_ss.n)
                       df == PyInt(c[2] - pan.min_fs.n)
                   IN  /\ maps.x[c] = RAdd(RAdd(RMul(ds, pan.ssx),
                                                RMul(df, pan.fsx)), pan.cnx)
                       /\ maps.y[c] = RAdd(RAdd(RMul(ds, pan.ssy),
                                                RMul(df, pan.fsy)), pan.cny)

\* maps with a cell two windows cover and a cell no window covers
C14_Witness ==
    /\ pc = "mapped"
    /\ \E c \in SlabCells : Cardinality(Covering(c)) = 2
    /\ \E c \in SlabCells : Covering(c) = {}

(***************************************************************************)
(* C20                                                                     *)
(***************************************************************************)
\* C20: with (height, width) = compute_min_array_size of the pixel maps,
\* every coordinate compute_visualization_pix_maps produces satisfies
\* 0 <= y' <= height - 1 and 0 <= x' <= width - 1, so that
\* apply_geometry_to_data never fails on an index and never writes through
\* a negative index.
C20_VisualizationInRange ==
    /\ pc # "apply_raised"
    /\ pc = "applied" =>
          \A c \in DOMAIN visual_pixel_maps.x :
              /\ 0 <= visual_pixel_maps.y[c]
              /\ visual_pixel_maps.y[c] <= compute_min_array_size(maps)[1] - 1
              /\ 0 <= visual_pixel_maps.x[c]
              /\ visual_pixel_maps.x[c] <= compute_min_array_size(maps)[2] - 1

\* a pixel at the most negative y of the maps lands on row 0 of the canvas
C20_Witness ==
    /\ pc = "applied"
    /\ \E c \in DOMAIN maps.y :
          /\ maps.y[c] = PyInt(-3)
          /\ visual_pixel_maps.y[c] = 0

(***************************************************************************)
(* C15                                                                     *)
(***************************************************************************)
\* the entity of line k when it is a well-formed entity/field = value line:
\* no comment, three tokens or more of which the second is "=", and a key
\* of an entity and a field; "" for any other line
EntityOf(k) ==
    LET items == LineItems(file[k])
    IN  IF StartsWith(file[k], ";") \/ Len(items) < 3 THEN ""
        ELSE IF items[2] # "=" \/ Len(KeyPath(items[1])) < 2 THEN ""
        ELSE KeyPath(items[1])[1]
EntityLine(k) == EntityOf(k) # ""

\* the distinct entity names of the first n lines, in order of first mention
RECURSIVE Mentioned(_)
Mentioned(n) ==
    IF n = 0 THEN <<>>
    ELSE LET before == Mentioned(n - 1)
             entity == EntityOf(n)
         IN  IF entity # "" /\ \A j \in 1..Len(before) : before[j] # entity
             THEN Append(before, entity)
             ELSE before

\* those of the names that start with "bad" (bad = TRUE) or the others
Named(names, bad) == SelectSeq(names, LAMBDA e : StartsWith(e, "bad") = bad)

\* the keys of a record the assignment of the field writes
KeysWritten(field) ==
    CASE field = "corner_x" -> {"cnx"}
      [] field = "corner_y" -> {"cny"}
      [] field = "coffset" -> {"coffset"}
      [] field \in {"min_x", "max_x"} -> {field, "is_fsss"}
      [] field = "min_fs" -> {"min_fs", "origin_min_fs", "is_fsss"}
      [] OTHER -> {}

\* while the lines are read and in the model returned, the panels and the
\* bad regions are the entity names mentioned so far, each in its own
\* mapping, in order of first mention
EntitiesAsMentioned ==
    pc \in {"lines", "returned"} =>
        /\ \E names \in {Mentioned(line_no)} :
              /\ Keys(detector.panels) = Named(names, FALSE)
              /\ Keys(detector.bad) = Named(names, TRUE)
        /\ \A k \in 1..Len(detector.panels) :
              ~Has(detector.bad, detector.panels[k].k)

\* the step that reads a line: a skipped line changes nothing, and a line
\* that mentions an entity again changes, in the record the entity has, only
\* the keys its field writes
LineStep ==
    (pc = "lines" /\ pc' = "lines" /\ line_no' = line_no + 1) =>
        \E items \in {LineItems(file[line_no'])}, entity \in {EntityOf(line_no')} :
            /\ (\/ StartsWith(file[line_no'], ";")
                \/ Len(items) < 3
                \/ items[2] # "=")
                  => /\ detector' = detector /\ beam' = beam
                     /\ default_panel' = default_panel
            /\ (entity # "" /\ Has(detector.panels, entity))
                  => \A f \in DOMAIN default_panel_init
                                \ KeysWritten(FieldOf(line_no')) :
                        Get(detector'.panels, entity)[f]
                           = Get(detector.panels, entity)[f]
            /\ (entity # "" /\ Has(detector.bad, entity))
                  => \A f \in DOMAIN default_bad_region
                                \ KeysWritten(FieldOf(line_no')) :
                        Get(detector'.bad, entity)[f]
                           = Get(detector.bad, entity)[f]

\* C15: after any sequence of lines the panels are exactly the distinct
\* entity names not starting with "bad" of the well-formed
\* entity/field = value lines, in order of first mention, and the bad
\* regions those starting with "bad"; no name is in both; a repeated
\* mention reuses the record; a comment line, a line whose second token is
\* not "=" and a line of fewer than three tokens change nothing.
C15_EntitiesAsMentioned ==
    []EntitiesAsMentioned /\ [][LineStep]_vars

\* a returned model of the panels q and p, in the order the file first
\* mentions them
C15_Witness ==
    /\ Returned
    /\ Keys(detector.panels) = <<"q", "p">>
    /\ \E j, k \in 1..Len(file) :
          j < k /\ EntityOf(j) = "q" /\ EntityOf(k) = "p"

(***************************************************************************)
(* C16                                                                     *)
(***************************************************************************)
\* the number of "%" entries of a panel's dim_structure, 0 when it has none
PercentEntries(p) ==
    IF p.dim_structure = None THEN 0
    ELSE Cardinality({k \in 1..Len(p.dim_structure.v) :
                         p.dim_structure.v[k] = Str("%")})

\* the number of "%" characters of a panel's mask, 0 when it has none
PercentChars(p) ==
    IF p.mask = None THEN 0
    ELSE Cardinality({i \in 1..Len(p.mask.s) : Ch(p.mask.s, i) = "%"})

PlaceholdersAgree(d) ==
    /\ \A j, k \in 1..Len(d.panels) :
          /\ PercentEntries(d.panels[j].v) = PercentEntries(d.panels[k].v)
          /\ PercentChars(d.panels[j].v) = PercentChars(d.panels[k].v)
    /\ \A k \in 1..Len(d.panels) :
          PercentChars(d.panels[k].v) <= PercentEntries(d.panels[k].v)

\* C16: in every returned model all panels have the same number of "%"
\* entries in dim_structure, the same number of "%" characters in their
\* mask, and no more in the mask than in dim_structure; a geometry that
\* violates one of the three at the end of its lines fails.
C16_PlaceholdersAgree ==
    /\ [](Returned => PlaceholdersAgree(detector))
    /\ [][(/\ pc = "lines" /\ line_no = Len(file) /\ detector.panels # <<>>
           /\ ~PlaceholdersAgree(detector)) => Raised']_vars

\* a returned model of two panels whose masks and dim_structures have one
\* placeholder each
C16_Witness ==
    /\ Returned
    /\ Len(detector.panels) = 2
    /\ \A k \in 1..2 : /\ PercentChars(detector.panels[k].v) = 1
                       /\ PercentEntries(detector.panels[k].v) = 1

(***************************************************************************)
(* C17                                                                     *)
(***************************************************************************)
\* the square of the lab-frame distance of the corner (fs, ss) of the panel
\* from the origin
CornerDistance(panel, fs, ss) ==
    LET x == RDiv(RAdd(RAdd(RMul(fs, panel.fsx), RMul(ss, panel.ssx)), panel.cnx),
                  panel.res)
        y == RDiv(RAdd(RAdd(RMul(fs, panel.fsy), RMul(ss, panel.ssy)), panel.cny),
                  panel.res)
    IN  RAdd(RMul(x, x), RMul(y, y))

\* the distances of the four corners of every panel
CornerDistances ==
    UNION {{CornerDistance(detector.panels[k].v, fs, ss) :
               fs \in {PyInt(0), detector.panels[k].v.w},
               ss \in {PyInt(0), detector.panels[k].v.h}} :
           k \in 1..Len(detector.panels)}

\* the named point is a corner of a panel of the model
IsCorner(name, fs, ss) ==
    /\ name # Absent /\ Has(detector.panels, name.s)
    /\ fs \in {PyInt(0), PanelOf(name.s).w}
    /\ ss \in {PyInt(0), PanelOf(name.s).h}

\* C17: after every successful load furthest_out_panel/fs/ss name a corner
\* whose distance from the origin is the maximum over the four corners of
\* all panels, and furthest_in_panel/fs/ss are set and name a corner whose
\* distance is the minimum over the same corners.
C17_FurthestCorners ==
    Returned =>
        /\ IsCorner(detector.furthest_out_panel, detector.furthest_out_fs,
                    detector.furthest_out_ss)
        /\ \A d \in CornerDistances :
              ~RLt(CornerDistance(PanelOf(detector.furthest_out_panel.s),
                                  detector.furthest_out_fs,
                                  detector.furthest_out_ss), d)
        /\ IsCorner(detector.furthest_in_panel, detector.furthest_in_fs,
                    detector.furthest_in_ss)
        /\ \A d \in CornerDistances :
              ~RLt(d, CornerDistance(PanelOf(detector.furthest_in_panel.s),
                                     detector.furthest_in_fs,
                                     detector.furthest_in_ss))

\* the half of C17 about the furthest corner
C17_FurthestOut ==
    Returned =>
        /\ IsCorner(detector.furthest_out_panel, detector.furthest_out_fs,
                    detector.furthest_out_ss)
        /\ \A d \in CornerDistances :
              ~RLt(CornerDistance(PanelOf(detector.furthest_out_panel.s),
                                  detector.furthest_out_fs,
                                  detector.furthest_out_ss), d)

(***************************************************************************)
(* C18                                                                     *)
(***************************************************************************)
\* line k is the last rail_direction assignment of the panel
LastRail(k, name) ==
    /\ Assigns(k, name, "rail_direction")
    /\ \A j \in (k + 1)..Len(file) : ~Assigns(j, name, "rail_direction")

\* the rail of the panel along the axis
RailAlong(panel, axis) ==
    CASE axis = "x" -> panel.rail_x
      [] axis = "y" -> panel.rail_y
      [] axis = "z" -> panel.rail_z

\* C18: in every returned model a panel that was assigned a rail_direction
\* (together with clen_for_centering) has rail_x, rail_y and rail_z all
\* numeric, and equal to the assigned direction on every axis the expression
\* mentions (here the expressions are single axes, of coefficient 1); the
\* default (0,0,1) replaces the rail only of panels that were never assigned
\* a rail_direction.
C18_RailAssigned ==
    Returned =>
        \A p \in 1..Len(detector.panels) :
            LET name == detector.panels[p].k
                panel == detector.panels[p].v
            IN  (Assigned(name, "rail_direction")
                   /\ Assigned(name, "clen_for_centering")) =>
                    /\ \A axis \in {"x", "y", "z"} : IsNum(RailAlong(panel, axis))
                    /\ \A k \in 1..Len(file) : \A axis \in {"x", "y", "z"} :
                          (LastRail(k, name) /\ ValueOf(k) = axis)
                              => RailAlong(panel, axis) = PyInt(1)

(***************************************************************************)
(* C19                                                                     *)
(***************************************************************************)
\* line k assigns the panel field at top level
AssignsTop(k, field) ==
    \E items \in {LineItems(file[k])} :
        /\ ~StartsWith(file[k], ";") /\ Len(items) >= 3
        /\ items[2] = "=" /\ items[1] = field

\* the number line k assigns
NumberOf(k) == ParseFloat(ValueOf(k)).v

\* the last and the first of the lines in S
LastIn(S) == CHOOSE k \in S : \A j \in S : j <= k
FirstIn(S) == CHOOSE k \in S : \A j \in S : k <= j

\* the value the panel has for the field after the first n lines: the last
\* one assigned at its own scope, else the last one assigned at top level
\* before the line that first mentions the panel, else the initial default
Scoped(name, field, n) ==
    LET mentions == {k \in 1..n : EntityOf(k) = name}
        own == {k \in mentions : FieldOf(k) = field}
        top == {k \in 1..(FirstIn(mentions) - 1) : AssignsTop(k, field)}
    IN  IF own # {} THEN NumberOf(LastIn(own))
        ELSE IF top # {} THEN NumberOf(LastIn(top))
        ELSE IF field = "coffset" THEN default_panel_init.coffset
        ELSE default_panel_init.cnx

\* while the lines are read and in the model returned, every panel has, for
\* coffset and corner_x, the value of its scope
PanelsKeepTheirScope ==
    pc \in {"lines", "returned"} =>
        \A p \in 1..Len(detector.panels) :
            /\ detector.panels[p].v.coffset
                  = Scoped(detector.panels[p].k, "coffset", line_no)
            /\ detector.panels[p].v.cnx
                  = Scoped(detector.panels[p].k, "corner_x", line_no)

\* the step that reads a line: a top-level assignment of a panel field
\* changes only the default panel record, which takes the value; an
\* assignment to a panel leaves the default record and the other panels as
\* they are, and a panel it creates starts from the default record
DefaultStep ==
    (pc = "lines" /\ pc' = "lines" /\ line_no' = line_no + 1) =>
        /\ \A field \in {"coffset", "corner_x"} :
              AssignsTop(line_no', field) =>
                  /\ detector' = detector /\ beam' = beam
                  /\ \A f \in KeysWritten(field) :
                        default_panel'[f] = NumberOf(line_no')
                  /\ \A f \in DOMAIN default_panel \ KeysWritten(field) :
                        default_panel'[f] = default_panel[f]
        /\ \E entity \in {EntityOf(line_no')} :
              \A p \in 1..Len(detector'.panels) :
                  LET name == detector'.panels[p].k
                  IN  IF entity = name
                      THEN /\ default_panel' = default_panel
                           /\ ~Has(detector.panels, name) =>
                                 \A f \in DOMAIN default_panel
                                            \ KeysWritten(FieldOf(line_no')) :
                                     detector'.panels[p].v[f] = default_panel[f]
                      ELSE /\ Has(detector.panels, name)
                           /\ detector'.panels[p].v = Get(detector.panels, name)

\* C19: a top-level assignment of coffset, or of a panel field reached
\* through the top-level fall-through, changes only the default panel
\* record: no panel created on an earlier line changes, every panel first
\* mentioned on a later line starts with the assigned value, and later
\* assignments to a created panel change neither the default record nor any
\* other panel.
C19_DefaultsAreCopied ==
    []PanelsKeepTheirScope /\ [][DefaultStep]_vars

\* panel p was created before a top-level coffset that panel q, created
\* after it, starts with
C19_Witness ==
    /\ Returned
    /\ Has(detector.panels, "p") /\ Has(detector.panels, "q")
    /\ PanelOf("p").coffset = PyInt(0)
    /\ PanelOf("q").coffset = PyInt(2)
    /\ ~Assigned("q", "coffset")

=============================================================================
